---- MODULE Spec2Model ----
(***************************************************************************)
(* A model of the LemonAI code-act agent: the per-task conversation        *)
(* memory (LocalMemory.addMessage with its repeat detection, adjacent      *)
(* de-duplication, occurrence pruning and character-budget pruning), the   *)
(* tool-call parser, the runtime's result recording, and the               *)
(* completeCodeAct control loop.                                           *)
(*                                                                         *)
(* Strings are modelled by what the code reads of them.  A message content *)
(* is a record                                                             *)
(*   tool : the tool tag the text begins with ("" when it begins with none)*)
(*   key  : the stable key the memory extracts from a leading tool call    *)
(*          (basename of <path>, or command||args||cwd)                    *)
(*   txt  : the rest of the text, by name                                  *)
(*   len  : its length in characters                                       *)
(*   frag : the kind of conversation-workspace path it carries             *)
(* A sha1 digest is modelled by the tuple of the strings it digests, the   *)
(* empty digest '' by the empty tuple.                                     *)
(***************************************************************************)
EXTENDS Integers, Sequences, FiniteSets, TLC

VARIABLES
  messages,            \* the task's memory file (LocalMemory._getFilePath)
  pendingRepeatError,  \* LocalMemory._pendingRepeatError: <<>> or <<record>>
  inflight,            \* addMessage calls suspended between load and save
  serialMessages,      \* history: the file had the calls run one at a time
  serialPending,       \* history: _pendingRepeatError in that serial run
  calls,               \* number of addMessage calls issued by the driver
  pc,                  \* position of completeCodeAct
  retryCount,          \* completeCodeAct's retryCount
  output,              \* content: what thinking() returned this turn
  actions,             \* actionsToExecute of the current turn
  idx,                 \* index of the action being handled (1-based)
  multiActionMode,
  requestedRetry,
  requestedRetryNoPenalty,
  action_result,       \* what runtime.execute_action returned
  prompt_mode,         \* context.prompt_mode
  reflection,          \* context.reflection ("" when unset)
  last_finish_status,  \* context.last_finish_status ("" when unset)
  result,              \* the value completeCodeAct returned ("" while running)
  turns,               \* number of LLM turns taken
  errorFeedback,       \* context._errorFeedbackState
  hist,                \* history of the run, read by the properties only
  disk,                \* the bytes of the memory file and the save under way
  probe                \* a call of a tool of the runtime: its input and result

memVars == <<messages, pendingRepeatError>>
sideVars == <<disk, probe>>
concVars == <<inflight, serialMessages, serialPending, sideVars>>
loopVars == <<pc, retryCount, output, actions, idx, multiActionMode,
              requestedRetry, requestedRetryNoPenalty, action_result, prompt_mode,
              reflection, last_finish_status, result, turns, errorFeedback,
              hist>>
vars == <<messages, pendingRepeatError, inflight, serialMessages, serialPending,
          calls, pc, retryCount, output, actions, idx, multiActionMode,
          requestedRetry, requestedRetryNoPenalty, action_result, prompt_mode,
          reflection, last_finish_status, result, turns, errorFeedback, hist,
          disk, probe>>

----------------------------------------------------------------------------
(* Program constants *)

MAX_RETRY_TIMES == 10
PRUNE_KEEP_OCCURRENCES == 3
PRUNE_MAX_CHARS == 60000
REPEAT_DETECT_WINDOW == 2

----------------------------------------------------------------------------
(* Strings *)

NoHash == <<>>

Txt(t, n) == [tool |-> "", key |-> "", txt |-> t, len |-> n, frag |-> "none"]

Xml(tool, key, t, n) == [tool |-> tool, key |-> key, txt |-> t, len |-> n, frag |-> "none"]

WithPath(c, f) == [c EXCEPT !.frag = f, !.len = @ + Len(f)]

EmptyContent == Txt("", 0)

Max(a, b) == IF a >= b THEN a ELSE b

MemoryTools == {"read_file", "write_code", "patch_code", "replace_code_block", "terminal_run"}

FileTools == {"read_file", "write_code", "patch_code", "replace_code_block"}

\* The conversation-workspace path forms a text may carry: the name of each
\* is the path text itself, so that its length is the fragment's length.
AbsPath == "/workspace/user_1/Conversation_75c470/"

DotPath == "./user_1/Conversation_75c470/"

RelPath == "user_1/Conversation_75c470/"

BarePath == "Conversation_75c470/"

\* LocalMemory.sanitizeToolReturnForLLM: (?:/workspace/|./)?user_N/Conversation_x/
\* is removed; a bare Conversation_x/ does not match.
sanitizeToolReturnForLLM(c) ==
  IF c.len = 0 THEN c
  ELSE IF c.frag \in {AbsPath, DotPath, RelPath}
       THEN [c EXCEPT !.frag = "none", !.len = @ - Len(c.frag)]
       ELSE c

computeRepeatHashFromContent(c) ==
  IF c.len = 0 THEN NoHash ELSE <<c.tool, c.key, c.txt, c.frag>>

computePruneHash(toolName, normalizedKey) ==
  IF toolName = "" \/ normalizedKey = "" THEN NoHash ELSE <<toolName, normalizedKey>>

computeToolCallKey(toolName, normalizedKey) ==
  IF toolName = "" \/ normalizedKey = "" THEN NoHash ELSE <<toolName, normalizedKey>>

getLogicalActionType(role, action_type, meta, content) ==
  LET t == IF action_type # "" THEN action_type ELSE meta.action_type
  IN IF t \in MemoryTools THEN t
     ELSE IF role = "assistant" /\ content.len > 0 /\ content.tool \in MemoryTools
          THEN content.tool
          ELSE ""

\* The callers of addMessage pass no meta.action, no meta.filepath and no
\* meta.stable_key, so the key comes from the leading tool call of the content.
getStableKeyForLogicalAction(content, logicalActionType) ==
  IF logicalActionType = "" THEN ""
  ELSE IF logicalActionType = "terminal_run"
       THEN IF content.len > 0 /\ content.tool = "terminal_run" THEN content.key ELSE ""
       ELSE IF content.len > 0 /\ content.tool \in FileTools THEN content.key ELSE ""

isInformationToolCall(role, content) ==
  role = "assistant" /\ content.len > 0 /\ content.tool = "information"

Acknowledged == Txt("Acknowledged.", Len("Acknowledged."))

\* A memory that takes no message for the acknowledgement of the runtime.
isAcknowledgedNever(role, content) == FALSE

isAcknowledgedMessage(role, content) ==
  role = "user" /\ content = Acknowledged

RepeatErrorString ==
  "ERROR: repeated assistant output detected. You must NOT repeat the same message again. You must change strategy and produce a different output and/or call a concrete tool."

RepeatErrorText == Txt(RepeatErrorString, Len(RepeatErrorString))

isTerminalRunResultMessage(action_type, meta) ==
  (IF action_type # "" THEN action_type ELSE meta.action_type) = "terminal_run_result"

----------------------------------------------------------------------------
(* Stored messages *)

Meta(prune_hash, toolCallKey, repeat_hash, action_type, action_memory) ==
  [prune_hash |-> prune_hash, toolCallKey |-> toolCallKey,
   repeat_hash |-> repeat_hash, action_type |-> action_type,
   action_memory |-> action_memory, pruned |-> FALSE]

Message(role, content, action_type, memorized, meta) ==
  [role |-> role, content |-> content, action_type |-> action_type,
   memorized |-> memorized, meta |-> meta]

\* The meta object a caller passes: {} or the runtime result's meta, which
\* carries action_type and no prune_hash.
CallerMeta(action_type) == [action_type |-> action_type]

NoMeta == CallerMeta("")

\* A pruning that marks a message without emptying it.
markMessagePruned(m) == [m EXCEPT !.meta.pruned = TRUE]

\* A pruning that leaves a message as it is.
keepMessagePayload(m) == m

blankMessagePayload(m) ==
  [m EXCEPT !.memorized = FALSE, !.content = EmptyContent,
            !.meta.action_memory = 0, !.meta.pruned = TRUE]

estimateMessageCharCost(m) ==
  m.content.len + Len(m.action_type) + m.meta.action_memory

findRecentAssistantRepeatHashes(msgs, maxCount) ==
  LET cand == {i \in 1..Len(msgs) :
                 /\ msgs[i].role = "assistant"
                 /\ ~msgs[i].meta.pruned
                 /\ msgs[i].meta.repeat_hash # NoHash}
      recent == {i \in cand : Cardinality({j \in cand : j > i}) < maxCount}
  IN {msgs[i].meta.repeat_hash : i \in recent}

\* A pruning that forgets the incoming occurrence and keeps N of the history.
KeepFromHistoryIgnoringIncoming(keep, incomingStartsNewGroup) == keep

\* keepFromHistory of applyUnifiedPruneByHash
KeepFromHistory(keep, incomingStartsNewGroup) ==
  IF incomingStartsNewGroup THEN Max(0, keep - 1) ELSE keep

applyUnifiedPruneByHash(msgs, pruneHash, keepN, incomingStartsNewGroup) ==
  IF pruneHash = NoHash THEN msgs
  ELSE
    LET keep == Max(1, keepN)
        anchors == {i \in 1..Len(msgs) :
                      /\ msgs[i].role = "assistant"
                      /\ msgs[i].meta.prune_hash = pruneHash
                      /\ ~msgs[i].meta.pruned
                      /\ msgs[i].content.len # 0}
        OccEnd(i) == IF /\ i + 1 <= Len(msgs)
                        /\ msgs[i + 1].role = "user"
                        /\ msgs[i + 1].meta.prune_hash = pruneHash
                        /\ ~msgs[i + 1].meta.pruned
                        /\ msgs[i + 1].content.len # 0
                     THEN i + 1 ELSE i
        keepFromHistory == KeepFromHistory(keep, incomingStartsNewGroup)
        keepOccurrences == {i \in anchors :
                              Cardinality({j \in anchors : j > i}) < keepFromHistory}
        keepIdx == UNION {i..OccEnd(i) : i \in keepOccurrences}
        blanked == (UNION {i..OccEnd(i) : i \in anchors}) \ keepIdx
    IN [i \in 1..Len(msgs) |->
          IF i \in blanked THEN blankMessagePayload(msgs[i]) ELSE msgs[i]]

applyUnifiedPruneByToolCallKey(msgs, toolCallKey, keepN, incomingStartsNewGroup) ==
  IF toolCallKey = NoHash THEN msgs
  ELSE
    LET matched == {i \in 1..Len(msgs) :
                      msgs[i].role = "assistant" /\ msgs[i].meta.toolCallKey = toolCallKey}
        missingHash == {i \in matched : msgs[i].meta.prune_hash = NoHash}
        anchors == matched \ missingHash
        hashes == {msgs[i].meta.prune_hash : i \in anchors}
    IN IF anchors = {} \/ missingHash # {} \/ Cardinality(hashes) # 1
       THEN msgs
       ELSE applyUnifiedPruneByHash(msgs, CHOOSE h \in hashes : TRUE, keepN,
                                    incomingStartsNewGroup)

RECURSIVE SumCost(_, _)
\* the estimated cost of msgs[from..Len(msgs)]
SumCost(msgs, from) ==
  IF from > Len(msgs) THEN 0
  ELSE estimateMessageCharCost(msgs[from]) + SumCost(msgs, from + 1)

\* Whether the walk from the newest block stops at a block: the running sum,
\* which starts at the incoming cost, has passed the budget.
BudgetExceeded(sum, budget) == sum > budget

applyCharBudgetPruneKeepingPruneHashGroups(msgs, maxChars, extraIncomingChars) ==
  IF Len(msgs) = 0 \/ maxChars <= 0 THEN msgs
  ELSE
    LET starts == {s \in 1..Len(msgs) :
                     s = 1 \/ msgs[s - 1].meta.prune_hash # msgs[s].meta.prune_hash}
        exceeding == {s \in starts :
                        BudgetExceeded(Max(0, extraIncomingChars) + SumCost(msgs, s), maxChars)}
    IN IF exceeding = {} THEN msgs
       ELSE LET cutoffStart == CHOOSE s \in exceeding : \A t \in exceeding : t <= s
            IN SubSeq(msgs, cutoffStart, Len(msgs))

\* The length of json2xml({status, result: content}), the action_memory of a
\* memorized user message.
json2xml(content) == content.len + Len("<status>success</status><result></result>")

RepeatErrorMessage(pending) ==
  Message("user", RepeatErrorText, "llm_output_rejected_repeat", FALSE,
          Meta(pending.prune_hash, NoHash, pending.repeat_hash, "", 0))

\* A memory in which a result takes no prune_hash from the call before it.
InheritNoPruneHash(msgs, role) == NoHash

\* The prune_hash a user message takes from the assistant message before it.
InheritPruneHash(msgs, role) ==
  IF /\ role = "user"
     /\ Len(msgs) > 0
     /\ msgs[Len(msgs)].role = "assistant"
     /\ msgs[Len(msgs)].meta.prune_hash # NoHash
  THEN msgs[Len(msgs)].meta.prune_hash
  ELSE NoHash

\* A memory in which a tool call takes the prune_hash of the message before
\* it, when that message has one, before the hash of its own tool and key.
resolvePruneHashFromPrevious(msgs1, role, content, logicalActionType, stableKey, isToolCallAssistant, isTermResult, metaPruneHash) ==
  IF ~isToolCallAssistant THEN InheritPruneHash(msgs1, role)
  ELSE IF Len(msgs1) > 0 /\ msgs1[Len(msgs1)].meta.prune_hash # NoHash
       THEN msgs1[Len(msgs1)].meta.prune_hash
       ELSE computePruneHash(logicalActionType, stableKey)

\* One step of the resolution of the incoming prune_hash: a step fills the
\* hash in only when no earlier step has produced one.
fillPruneHash(hash, applies, computed) ==
  IF hash = NoHash /\ applies THEN computed ELSE hash

\* The incoming prune_hash of addMessage: the one of the rejected repeat, of
\* the tool call, of a terminal result, of an information call, of the
\* acknowledgement of an information call, or the one inherited from the
\* assistant message before.
resolveIncomingPruneHash(msgs1, role, content, logicalActionType, stableKey, isToolCallAssistant, isTermResult, metaPruneHash) ==
  fillPruneHash(
    fillPruneHash(
      fillPruneHash(
        fillPruneHash(
          fillPruneHash(metaPruneHash, isToolCallAssistant,
                        computePruneHash(logicalActionType, stableKey)),
          isTermResult, computePruneHash("terminal_run", "")),
        isInformationToolCall(role, content),
        computePruneHash("information", content.txt)),
      /\ isAcknowledgedMessage(role, content)
      /\ Len(msgs1) > 0
      /\ msgs1[Len(msgs1)].meta.prune_hash # NoHash
      /\ isInformationToolCall(msgs1[Len(msgs1)].role, msgs1[Len(msgs1)].content),
      msgs1[Len(msgs1)].meta.prune_hash),
    TRUE, InheritPruneHash(msgs1, role))

\* The end of addMessage: the two prunings of the history, the append of the
\* incoming message and the new _pendingRepeatError.
pruneAndAppend(msgs1, pending2, role, content, action_type, memorized, meta_in, logicalActionType, metaRepeatHash, incomingRepeatHash, repeatDetected, isToolCallAssistant, incomingToolCallKey, incomingPruneHash) ==
  LET msgs2 == IF isToolCallAssistant /\ incomingToolCallKey # NoHash
                  /\ incomingPruneHash # NoHash
               THEN applyUnifiedPruneByToolCallKey(msgs1, incomingToolCallKey,
                                                   PRUNE_KEEP_OCCURRENCES, TRUE)
               ELSE msgs1
      incomingCharCost == content.len + Len(action_type)
      msgs3 == IF PRUNE_MAX_CHARS > 0
               THEN applyCharBudgetPruneKeepingPruneHashGroups(msgs2, PRUNE_MAX_CHARS,
                                                               incomingCharCost)
               ELSE msgs2
      action_memory == IF role = "user" /\ memorized THEN json2xml(content) ELSE 0
      meta_action_type == IF logicalActionType # "" /\ meta_in.action_type = ""
                          THEN logicalActionType ELSE meta_in.action_type
      stored == Message(role, content, action_type, memorized,
                        Meta(incomingPruneHash, incomingToolCallKey,
                             IF incomingRepeatHash # NoHash THEN incomingRepeatHash
                             ELSE metaRepeatHash,
                             meta_action_type, action_memory))
      pending3 == IF repeatDetected
                  THEN <<[repeat_hash |-> incomingRepeatHash,
                          prune_hash |-> incomingPruneHash]>>
                  ELSE pending2
  IN [saved |-> TRUE, msgs |-> Append(msgs3, stored), pending |-> pending3]

\* The middle of addMessage, on the sanitized incoming message: the repeat
\* detection, the early return on an adjacent duplicate, and the keys of the
\* incoming message.
detectAndAppend(msgs0, msgs1, pending2, role, content, action_type, memorized, meta_in, logicalActionType, metaPruneHash, metaRepeatHash, incomingRepeatHash, isTermResult, stableKey) ==
  LET repeatDetected ==
        /\ incomingRepeatHash # NoHash
        /\ incomingRepeatHash \in findRecentAssistantRepeatHashes(msgs1, REPEAT_DETECT_WINDOW)
      last == msgs1[Len(msgs1)]
      duplicate == Len(msgs1) > 0 /\ last.role = role /\ last.content = content
      isToolCallAssistant ==
        role = "assistant" /\ ~isTermResult /\ logicalActionType \in MemoryTools
      incomingToolCallKey ==
        IF isToolCallAssistant THEN computeToolCallKey(logicalActionType, stableKey)
        ELSE NoHash
      incomingPruneHash ==
        resolveIncomingPruneHash(msgs1, role, content, logicalActionType, stableKey,
                                 isToolCallAssistant, isTermResult, metaPruneHash)
  IN IF duplicate
     THEN [saved |-> FALSE, msgs |-> msgs0, pending |-> pending2]
     ELSE pruneAndAppend(msgs1, pending2, role, content, action_type, memorized, meta_in,
                         logicalActionType, metaRepeatHash, incomingRepeatHash,
                         repeatDetected, isToolCallAssistant, incomingToolCallKey,
                         incomingPruneHash)

\* addMessage once the pending repeat error is injected and the content is
\* sanitized: an "Acknowledged." that answers a rejected repeat is replaced
\* by the error, then the message is keyed and appended.
replaceAckAndAppend(msgs0, msgs1, pending1, role, contentS, action_type_in, memorized, meta_in, logicalActionType, replaceAck) ==
  LET content == IF replaceAck THEN RepeatErrorText ELSE contentS
      action_type == IF replaceAck THEN "llm_output_rejected_repeat" ELSE action_type_in
      metaPruneHash == IF replaceAck THEN pending1[1].prune_hash ELSE NoHash
      metaRepeatHash == IF replaceAck THEN pending1[1].repeat_hash ELSE NoHash
      pending2 == IF replaceAck THEN <<>> ELSE pending1
      incomingRepeatHash ==
        IF role = "assistant" THEN computeRepeatHashFromContent(content) ELSE NoHash
      isTermResult == isTerminalRunResultMessage(action_type, meta_in)
      stableKey == getStableKeyForLogicalAction(content, logicalActionType)
  IN detectAndAppend(msgs0, msgs1, pending2, role, content, action_type, memorized,
                     meta_in, logicalActionType, metaPruneHash, metaRepeatHash,
                     incomingRepeatHash, isTermResult, stableKey)

\* LocalMemory.addMessage on the file content msgs0 it loaded, with
\* _pendingRepeatError = pending0: whether it saves the file (it returns
\* without saving on an adjacent duplicate), the content it saves and the new
\* _pendingRepeatError.
addMessage(msgs0, pending0, role, content_in, action_type_in, memorized, meta_in) ==
  LET inject == role = "assistant" /\ pending0 # <<>>
      msgs1 == IF inject THEN Append(msgs0, RepeatErrorMessage(pending0[1])) ELSE msgs0
      pending1 == IF inject THEN <<>> ELSE pending0
      contentS == sanitizeToolReturnForLLM(content_in)
      logicalActionType == getLogicalActionType(role, action_type_in, meta_in, contentS)
      replaceAck == isAcknowledgedMessage(role, contentS) /\ pending1 # <<>>
  IN replaceAckAndAppend(msgs0, msgs1, pending1, role, contentS, action_type_in,
                         memorized, meta_in, logicalActionType, replaceAck)

\* What a call that ran on the file content kept leaves in the file.
SavedMessages(kept, r) == IF r.saved THEN r.msgs ELSE kept

\* The write of a call's outcome to the stored file and _pendingRepeatError.
SaveOutcome(r) ==
  /\ messages' = SavedMessages(messages, r)
  /\ pendingRepeatError' = r.pending

\* addMessage applied to the stored file, as one call that runs alone does.
AddToMemory(role, content, action_type, memorized, meta) ==
  SaveOutcome(addMessage(messages, pendingRepeatError, role, content, action_type,
                         memorized, meta))

----------------------------------------------------------------------------
(* The values of the variables a specification does not use *)

\* getOrInitErrorFeedbackState: the paths whose read_file failed for a
\* transient reason, those to read again at the next turn, and where the
\* reflection at hand comes from (<<>> for null).
NoErrorFeedback == [readFileTransientByPath |-> {}, candidatesToRevalidate |-> {},
                    lastReflectionSource |-> <<>>]

LoopIdle ==
  /\ pc = "idle" /\ retryCount = 0 /\ output = <<>> /\ actions = <<>> /\ idx = 0
  /\ multiActionMode = FALSE /\ requestedRetry = FALSE
  /\ requestedRetryNoPenalty = FALSE /\ action_result = <<>>
  /\ prompt_mode = "build"
  /\ reflection = "" /\ last_finish_status = "" /\ result = ""
  /\ turns = 0 /\ errorFeedback = NoErrorFeedback /\ hist = <<>>

\* The memory file before the first save: it does not exist.  data is the
\* list the last save wrote or was writing, written the number of its messages
\* whose text is in the file, complete whether the text is there to its end,
\* prev the list the file held before that save.
NoFile == [exists |-> FALSE, prev |-> <<>>, data |-> <<>>, written |-> 0,
           complete |-> FALSE, writing |-> FALSE]

ConcIdle ==
  /\ inflight = <<>> /\ serialMessages = <<>> /\ serialPending = <<>>
  /\ disk = NoFile /\ probe = <<>>

MemoryEmpty == messages = <<>> /\ pendingRepeatError = <<>>

----------------------------------------------------------------------------
(* SpecMem: one caller appends messages to a task's memory, one call after  *)
(* the other.                                                               *)

MaxCalls == 7

Call(role, content, action_type, memorized, meta) ==
  [role |-> role, content |-> content, action_type |-> action_type,
   memorized |-> memorized, meta |-> meta]

WriteCodeCall == Call("assistant", Xml("write_code", "a.py", "print(1)", 100), "", FALSE, NoMeta)

WriteCodeResult ==
  Call("user", WithPath(Txt("Wrote file a.py", 100), AbsPath), "write_code", TRUE,
       CallerMeta("write_code"))

LongAnswer == Call("assistant", Txt("long plan", 25000), "", FALSE, NoMeta)

LongFeedback == Call("user", Txt("long log", 25000), "", FALSE, NoMeta)

AcknowledgedCall == Call("user", Acknowledged, "", FALSE, NoMeta)

MemCalls == {WriteCodeCall, WriteCodeResult, LongAnswer, LongFeedback, AcknowledgedCall}

InitMem == MemoryEmpty /\ ConcIdle /\ LoopIdle /\ calls = 0

MemAddMessage ==
  /\ calls < MaxCalls
  /\ \E c \in MemCalls :
       AddToMemory(c.role, c.content, c.action_type, c.memorized, c.meta)
  /\ calls' = calls + 1
  /\ UNCHANGED <<concVars, loopVars>>

NextMem == MemAddMessage

SpecMem == InitMem /\ [][NextMem]_vars

----------------------------------------------------------------------------
(* SpecConc: callers of one task's memory that do not wait for one another. *)
(* An addMessage call reads the file when it is invoked (_loadMemory runs   *)
(* readFileSync before its first suspension) and is then suspended at the   *)
(* await; when it resumes it computes on the content it read, reads         *)
(* _pendingRepeatError and writes the file (writeFileSync) in one           *)
(* synchronous stretch.  Suspended calls resume in invocation order.        *)

MaxConcCalls == 3

MaxCallers == 2

\* The history the calls would leave had they run one after the other.
SerialOutcome(r) ==
  /\ serialMessages' = r.msgs
  /\ serialPending' = r.pending

InitConc == MemoryEmpty /\ ConcIdle /\ LoopIdle /\ calls = 0

ConcInvoke ==
  /\ calls < MaxConcCalls
  /\ Len(inflight) < MaxCallers
  /\ \E c \in MemCalls :
       /\ inflight' = Append(inflight, [call |-> c, loaded |-> messages])
       /\ SerialOutcome(addMessage(serialMessages, serialPending, c.role, c.content,
                                   c.action_type, c.memorized, c.meta))
  /\ calls' = calls + 1
  /\ UNCHANGED <<memVars, loopVars, sideVars>>

ConcResume ==
  /\ inflight # <<>>
  /\ SaveOutcome(addMessage(Head(inflight).loaded, pendingRepeatError,
                            Head(inflight).call.role, Head(inflight).call.content,
                            Head(inflight).call.action_type,
                            Head(inflight).call.memorized, Head(inflight).call.meta))
  /\ inflight' = Tail(inflight)
  /\ UNCHANGED <<serialMessages, serialPending, calls, loopVars, sideVars>>

NextConc == ConcInvoke \/ ConcResume

SpecConc == InitConc /\ [][NextConc]_vars

----------------------------------------------------------------------------
(* Properties of the memory *)

\* C4: addMessage is atomic with respect to concurrent callers of one task:
\* once no call is in flight the stored history holds the appended message and
\* the pruning of every call, as if the calls had run one after the other.
C4_ConcurrentCallsAtomic ==
  inflight = <<>> => messages = serialMessages

RECURSIVE KeptCost(_, _)
\* the estimated cost of the non-pruned messages of msgs[from..Len(msgs)]
KeptCost(msgs, from) ==
  IF from > Len(msgs) THEN 0
  ELSE (IF msgs[from].meta.pruned THEN 0 ELSE estimateMessageCharCost(msgs[from]))
       + KeptCost(msgs, from + 1)

\* The non-pruned tool calls stored under a toolCallKey: one per occurrence.
KeptOccurrences(msgs, k) ==
  {i \in 1..Len(msgs) :
     /\ msgs[i].role = "assistant"
     /\ msgs[i].meta.toolCallKey = k
     /\ ~msgs[i].meta.pruned}

ToolCallKeys(msgs) ==
  {msgs[i].meta.toolCallKey : i \in 1..Len(msgs)} \ {NoHash}

\* C5: after any addMessage the estimated cost (content + action_type +
\* action_memory) summed over the non-pruned stored messages, the one just
\* appended included, is at most PRUNE_MAX_CHARS.
C5_CostWithinBudget == KeptCost(messages, 1) <= PRUNE_MAX_CHARS

\* C6: after any addMessage every toolCallKey has at most
\* PRUNE_KEEP_OCCURRENCES non-pruned occurrences in the stored memory.
C6_KeptOccurrencesBounded ==
  \A k \in ToolCallKeys(messages) :
    Cardinality(KeptOccurrences(messages, k)) <= PRUNE_KEEP_OCCURRENCES

\* C6 witness: a fourth call of one tool call has been appended, the oldest
\* occurrence (the call and its result) is blanked and three are kept.
C6_Witness ==
  \E k \in ToolCallKeys(messages) :
    /\ Cardinality(KeptOccurrences(messages, k)) = PRUNE_KEEP_OCCURRENCES
    /\ \E i \in 1..Len(messages) :
         /\ messages[i].role = "assistant"
         /\ messages[i].meta.toolCallKey = k
         /\ messages[i].meta.pruned
         /\ i < Len(messages)
         /\ messages[i + 1].role = "user"
         /\ messages[i + 1].meta.pruned

----------------------------------------------------------------------------
(* The LLM's output and the tool-call parser.                               *)
(* An output is some leading prose (possibly none) followed by tool blocks. *)
(* A block is a tool tag in one of three forms: "tags" (child tags, closed),*)
(* "attr" (attributes, self-closing) and "open" (the closing tag is         *)
(* missing).  params is what the XML parser reads of a closed block: a      *)
(* record of the parameters, Undefined for a parameter that is absent.      *)

Undefined == "<undefined>"

NoParams ==
  [path |-> Undefined, content |-> Undefined, command |-> Undefined,
   args |-> Undefined, status |-> Undefined, message |-> Undefined,
   comments |-> Undefined]

isNonEmptyString(v) == v # Undefined /\ v # ""

hasOwnProperty(p, f) == p[f] # Undefined

\* p.f || ""
OrEmpty(v) == IF v = Undefined THEN "" ELSE v

Block(tool, form, params, xml) ==
  [tool |-> tool, form |-> form, params |-> params, xml |-> xml]

Output(prose, blocks) == [prose |-> prose, blocks |-> blocks]

Action(type, params) == [type |-> type, params |-> params]

TOOL_TYPES ==
  {"finish", "patch_code", "write_code", "replace_code_block", "write_file",
   "read_file", "revise_plan", "terminal_run", "web_search", "read_url",
   "browser", "mcp_tool", "evaluation", "document_query", "document_upload",
   "patch_complete", "information"}

toCData(s) == "<![CDATA[" \o s \o "]]>"

\* The canonical XML that normalizeLLMToolOutputToXML writes for a finish.
CanonicalFinish(st, msg) ==
  Block("finish", "tags", [NoParams EXCEPT !.status = st, !.message = msg],
        "<finish><status>" \o st \o "</status><message>" \o toCData(msg)
          \o "</message></finish>")

\* normalizeLLMToolOutputToXML, for the XML shapes: an output that is one
\* attribute-form <finish .../> and has a status or a message attribute is
\* rewritten to the canonical finish, a missing status becoming SUCCESS.
normalizeLLMToolOutputToXML(o) ==
  IF o.prose = "" /\ Len(o.blocks) = 1 /\ o.blocks[1].tool = "finish"
     /\ o.blocks[1].form = "attr"
  THEN LET status == OrEmpty(o.blocks[1].params.status)
           message == OrEmpty(o.blocks[1].params.message)
       IN IF status # "" \/ message # ""
          THEN Output("", <<CanonicalFinish(IF status # "" THEN status ELSE "SUCCESS",
                                            message)>>)
          ELSE o
  ELSE o

RECURSIVE OutputText(_, _)
\* the text of blocks[from..]
OutputText(blocks, from) ==
  IF from > Len(blocks) THEN ""
  ELSE blocks[from].xml \o OutputText(blocks, from + 1)

RECURSIVE extractFrom(_, _)
\* extractToolXmlBlocks from block `from` on: a block whose closing tag is
\* missing becomes one invalid block that runs to the end of the output.
extractFrom(blocks, from) ==
  IF from > Len(blocks) THEN <<>>
  ELSE IF blocks[from].tool \notin TOOL_TYPES THEN extractFrom(blocks, from + 1)
  ELSE IF blocks[from].form = "open"
       THEN <<[toolName |-> blocks[from].tool, block |-> blocks[from],
               xml |-> OutputText(blocks, from),
               error |-> "Unterminated <" \o blocks[from].tool \o "> (missing </"
                           \o blocks[from].tool \o ">)"]>>
       ELSE <<[toolName |-> blocks[from].tool, block |-> blocks[from],
               xml |-> blocks[from].xml, error |-> ""]>>
            \o extractFrom(blocks, from + 1)

extractToolXmlBlocks(o) == extractFrom(o.blocks, 1)

\* The child tags the XML parser reads of each tool (resolve.xml.optimize.js)
defaultActions ==
  [finish |-> {"status", "message"},
   patch_code |-> {"path", "diff"},
   write_code |-> {"path", "content"},
   replace_code_block |-> {"path", "code_block"},
   write_file |-> {"path", "content"},
   read_file |-> {"path"},
   revise_plan |-> {"mode", "reason", "tasks"},
   terminal_run |-> {"command", "args"},
   web_search |-> {"topic", "query", "num_results"},
   read_url |-> {"url"},
   browser |-> {"question"},
   mcp_tool |-> {"name", "arguments"},
   evaluation |-> {"status", "comments"},
   document_query |-> {"query", "conversation_id"},
   document_upload |-> {"file_path", "conversation_id", "file_name"},
   patch_complete |-> {"message"},
   information |-> {"message"}]

\* StreamingXMLParser._parseInsideAction: inside the block of a tool only the
\* child tags that defaultActions lists for the tool start a field; any other
\* tag is skipped, and so is its text.
parseInsideAction(tool, params) ==
  [f \in DOMAIN params |-> IF f \in defaultActions[tool] THEN params[f] ELSE Undefined]

isStructurallyInvalidAction(action) ==
  CASE action.type \in {"patch_complete", "information"} -> FALSE
    [] action.type = "terminal_run" ->
         hasOwnProperty(action.params, "path") \/ hasOwnProperty(action.params, "content")
    [] action.type \in {"write_code", "write_file"} ->
         hasOwnProperty(action.params, "command")
    [] OTHER -> FALSE

\* resolveActions on the XML of one closed block: resolveXML normalizes it and
\* parses it; the child tags the parser reads are the parameters, attributes
\* are not.
resolveActions(b) ==
  LET n == normalizeLLMToolOutputToXML(Output("", <<b>>)).blocks[1]
      action == Action(n.tool, IF n.form = "tags" THEN parseInsideAction(n.tool, n.params)
                               ELSE NoParams)
  IN IF isStructurallyInvalidAction(action) THEN <<>> ELSE <<action>>

buildInvalidToolCallAction(reason, rawSnippet) ==
  Action("evaluation",
         [NoParams EXCEPT !.status = "failure",
                          !.comments = "Invalid tool call: " \o reason \o "\nraw:\n"
                                         \o rawSnippet])

resolveInformationActionBestEffort(b) ==
  Action("information", [NoParams EXCEPT !.message = b.params.message])

\* resolveActionsFromLLMOutput: prose without a tool block resolves, by the
\* legacy single-XML path, to no action.
resolveActionsFromLLMOutput(o) ==
  LET blocks == extractToolXmlBlocks(normalizeLLMToolOutputToXML(o))
  IN [i \in 1..Len(blocks) |->
        IF blocks[i].error # ""
        THEN buildInvalidToolCallAction(blocks[i].error, blocks[i].xml)
        ELSE IF blocks[i].toolName = "information"
        THEN resolveInformationActionBestEffort(blocks[i].block)
        ELSE LET one == resolveActions(blocks[i].block)
             IN IF Len(one) # 1
                THEN buildInvalidToolCallAction(
                       "Could not resolve a single action from <" \o blocks[i].toolName
                         \o "> block", blocks[i].xml)
                ELSE one[1]]

\* String.toUpperCase on the statuses an output carries.
toUpperCase(s) ==
  CASE s = "success" -> "SUCCESS"
    [] s = "failed" -> "FAILED"
    [] OTHER -> s

\* The registry of @src/tools/index.js: the recognized tool set.
ToolRegistry == TOOL_TYPES

getAllowedActionTypesFromRegistry ==
  {"parse_error", "pause_for_user_input", "revise_plan", "finish"} \cup ToolRegistry

\* validateActionArgs: the error message, "" when the arguments are valid.
validateActionArgs(action) ==
  LET p == action.params
  IN CASE action.type \notin getAllowedActionTypesFromRegistry ->
            "Invalid action type: \"" \o action.type
              \o "\". Please output one or more supported tool calls in valid XML format."
       [] action.type \in {"parse_error", "pause_for_user_input", "revise_plan",
                           "patch_complete", "information"} -> ""
       [] action.type = "terminal_run" ->
            IF ~isNonEmptyString(p.command)
            THEN "Invalid tool call: terminal_run requires a non-empty <command>. Do NOT put <path>/<content> under <terminal_run>. If you need to write a file, use <write_code> with <path> and <content>."
            ELSE ""
       [] action.type = "write_code" ->
            IF ~isNonEmptyString(p.path)
            THEN "Invalid tool call: write_code requires a non-empty <path>."
            ELSE IF p.content = Undefined
            THEN "Invalid tool call: write_code requires <content> as a string."
            ELSE ""
       [] action.type = "read_file" ->
            IF ~isNonEmptyString(p.path)
            THEN "Invalid tool call: read_file requires a non-empty <path>."
            ELSE ""
       [] action.type = "finish" ->
            IF ~isNonEmptyString(p.message)
            THEN "Invalid tool call: finish requires a non-empty <message>."
            ELSE IF ~isNonEmptyString(p.status)
            THEN "Invalid tool call: finish requires a non-empty <status> with value SUCCESS or FAILED."
            ELSE IF toUpperCase(p.status) \notin {"SUCCESS", "FAILED"}
            THEN "Invalid tool call: finish <status> must be SUCCESS or FAILED (got: "
                   \o p.status \o ")."
            ELSE ""
       [] OTHER -> ""

----------------------------------------------------------------------------
(* What the loop writes to the memory *)

Str(s) == Txt(s, Len(s))

\* The stable key LocalMemory reads from a text that begins with a tool call:
\* the basename of <path>, or command||args||cwd.
StableKey(tool, p) ==
  IF tool \in FileTools THEN OrEmpty(p.path)
  ELSE IF tool = "terminal_run" /\ isNonEmptyString(p.command)
       THEN p.command \o "||" \o OrEmpty(p.args) \o "||"
       ELSE ""

\* serializeActionToXml; xmlEscapeText changes none of the parameter texts of
\* the outputs below (they hold no &, < or >).
serializeActionToXml(action) ==
  LET p == action.params
  IN CASE action.type = "finish" ->
            "<finish>"
              \o (IF p.status # Undefined THEN "<status>" \o p.status \o "</status>" ELSE "")
              \o "<message>" \o toCData(OrEmpty(p.message)) \o "</message></finish>"
       [] action.type = "evaluation" ->
            "<evaluation><status>" \o OrEmpty(p.status) \o "</status><comments>"
              \o toCData(OrEmpty(p.comments)) \o "</comments></evaluation>"
       [] action.type = "information" ->
            "<information><message>" \o toCData(OrEmpty(p.message))
              \o "</message></information>"
       [] action.type = "patch_complete" ->
            "<patch_complete>"
              \o (IF isNonEmptyString(p.message)
                  THEN "<message>" \o toCData(p.message) \o "</message>" ELSE "")
              \o "</patch_complete>"
       [] action.type = "terminal_run" ->
            "<terminal_run><command>" \o OrEmpty(p.command) \o "</command>"
              \o (IF p.args # Undefined THEN "<args>" \o p.args \o "</args>" ELSE "")
              \o "</terminal_run>"
       [] action.type = "write_code" ->
            "<write_code><path>" \o OrEmpty(p.path) \o "</path><content>"
              \o toCData(OrEmpty(p.content)) \o "</content></write_code>"
       [] action.type = "read_file" ->
            "<read_file><path>" \o OrEmpty(p.path) \o "</path></read_file>"
       [] OTHER ->
            "<evaluation><status>failure</status><comments>"
              \o toCData("Invalid tool call: unknown action type \"" \o action.type \o "\".")
              \o "</comments></evaluation>"

\* The assistant message the loop injects for one action of a multi-action
\* turn.
InjectedCall(action) ==
  LET text == serializeActionToXml(action)
  IN Xml(action.type, StableKey(action.type, action.params), text, Len(text))

\* The content thinking() stores and returns: the normalized output.
OutputContent(o) ==
  LET text == o.prose \o OutputText(o.blocks, 1)
      leading == o.prose = "" /\ Len(o.blocks) > 0
  IN Xml(IF leading THEN o.blocks[1].tool ELSE "",
         IF leading THEN StableKey(o.blocks[1].tool, o.blocks[1].params) ELSE "",
         text, Len(text))

normalizeAssistantOutputForMemory(o) == normalizeLLMToolOutputToXML(o)

\* maybeExtractFinishStatus: the <status> of the first <finish> tag of the
\* stored output, "" when there is none.
maybeExtractFinishStatus(o) ==
  LET fin == {i \in 1..Len(o.blocks) :
                /\ o.blocks[i].tool = "finish"
                /\ o.blocks[i].form = "tags"
                /\ isNonEmptyString(o.blocks[i].params.status)}
  IN IF fin = {} THEN ""
     ELSE o.blocks[CHOOSE i \in fin : \A j \in fin : i <= j].params.status

\* The memory as a value: the file content and _pendingRepeatError.
Mem(msgs, pending) == [msgs |-> msgs, pending |-> pending]

MemAfter(mem, r) == Mem(SavedMessages(mem.msgs, r), r.pending)

Add(mem, role, content, action_type, memorized, meta) ==
  MemAfter(mem, addMessage(mem.msgs, mem.pending, role, content, action_type, memorized,
                           meta))

AddText(mem, role, content) == Add(mem, role, content, "", FALSE, NoMeta)

\* removeLastMessageWhere(m => m.role === 'assistant'): the index removed, 0
\* when there is no assistant message.
LastAssistant(msgs) ==
  LET a == {i \in 1..Len(msgs) : msgs[i].role = "assistant"}
  IN IF a = {} THEN 0 ELSE CHOOSE i \in a : \A j \in a : j <= i

\* A memory whose removeLastAssistantMessage removes nothing.
keepLastAssistantMessage(mem) == mem

removeLastAssistantMessage(mem) ==
  LET i == LastAssistant(mem.msgs)
  IN IF i = 0 THEN mem
     ELSE Mem(SubSeq(mem.msgs, 1, i - 1) \o SubSeq(mem.msgs, i + 1, Len(mem.msgs)),
              mem.pending)

\* buildInvalidOutputPreview of the removed assistant message (of the output
\* when none was removed).
buildInvalidOutputPreview(mem, content) ==
  LET i == LastAssistant(mem.msgs)
      invalidText == IF i # 0 THEN mem.msgs[i].content ELSE content
  IN IF invalidText.len = 0 THEN Str("(empty output)") ELSE invalidText

EmptyOutputCorrection ==
  Str("Model returned an empty output. Output one or more valid XML tool calls with all required arguments. Do not output any other text.")

UnresolvedCorrection ==
  Str("Invalid XML/tool output: could not resolve action. Output one or more valid XML tool calls with all required arguments. If you output multiple tool calls, each one must be valid XML.")

\* The drop of an invalid assistant output and the two developer messages
\* that replace it.
DropAndCorrect(mem, content, correction) ==
  LET dropped == removeLastAssistantMessage(mem)
      preview == buildInvalidOutputPreview(mem, content)
  IN AddText(AddText(dropped, "developer", preview), "developer", correction)

----------------------------------------------------------------------------
(* The prompt of a turn, as its lines *)

ErrorFeedbackHeader == "=== Error Feedback ==="

ErrorFeedbackEnd == "=== END ==="

\* The template thinking.txt filled in by resolveTemplate: the requirement,
\* the Error Feedback block that holds the reflection, and the tools.
ThinkingTemplate(reflection_) ==
  <<"=== Current Requirement ===", "write a.py", "=== END ===",
    ErrorFeedbackHeader, reflection_, ErrorFeedbackEnd,
    "=== Tools ===", "write_code, read_file, terminal_run, finish", "=== END ===">>

\* A prompt assembly that never removes the block.
keepErrorFeedbackBlock(lines) == lines

\* thinking_prompt.replace(/\n=== Error Feedback ===\n[\s\S]*?\n=== END ===\n?/, "\n"):
\* the first header line that is not the first line of the prompt, and the
\* lines after it up to the first end line that does not directly follow
\* the header, are removed.
removeErrorFeedbackBlock(lines) ==
  LET heads == {i \in 2..Len(lines) :
                  /\ lines[i] = ErrorFeedbackHeader
                  /\ \E j \in (i + 2)..Len(lines) : lines[j] = ErrorFeedbackEnd}
  IN IF heads = {} THEN lines
     ELSE LET i == CHOOSE h \in heads : \A g \in heads : h <= g
              j == CHOOSE e \in (i + 2)..Len(lines) :
                     /\ lines[e] = ErrorFeedbackEnd
                     /\ \A f \in (i + 2)..(e - 1) : lines[f] # ErrorFeedbackEnd
          IN SubSeq(lines, 1, i - 1) \o SubSeq(lines, j + 1, Len(lines))

\* resolveThinkingPrompt: the block is removed when the last finish status
\* on the context is SUCCESS.
resolveThinkingPrompt(reflection_, lastFinishStatusRaw) ==
  IF toUpperCase(lastFinishStatusRaw) = "SUCCESS"
  THEN removeErrorFeedbackBlock(ThinkingTemplate(reflection_))
  ELSE ThinkingTemplate(reflection_)

----------------------------------------------------------------------------
(* The runtime: what execute_action returns and records *)

\* sanitizeToolReturnForLLM of code-act.js and LocalRuntime.js: only the
\* absolute form /workspace/user_N/Conversation_x/ is removed.
sanitizeAbsolutePath(c) ==
  IF c.len > 0 /\ c.frag = AbsPath
  THEN [c EXCEPT !.frag = "none", !.len = @ - Len(AbsPath)]
  ELSE c

\* A result of the runtime: status, meta.exitCode (<<>> when there is none or
\* it is null), the text the result carries (content, else stderr, else
\* error), whether that text holds a test-failure signature such as
\* "FAILED (", and whether the tool threw instead of returning.
Result(status, exitCode, text, signature, thrown) ==
  [status |-> status, exitCode |-> exitCode, text |-> text,
   signature |-> signature, thrown |-> thrown]

NoResult == Result("", <<>>, EmptyContent, FALSE, FALSE)

WriteCodeResults ==
  {Result("success", <<>>,
          WithPath(Str("File a.py written successfully."), AbsPath), FALSE, FALSE),
   Result("failure", <<>>,
          WithPath(Str("Refused to write Python file a.py: interactive input is forbidden (matched: input()."),
                   AbsPath), FALSE, FALSE),
   Result("failure", <<>>,
          WithPath(Str("EACCES: permission denied, open 'a.py'"), AbsPath), FALSE, TRUE)}

ReadFileResults ==
  {Result("success", <<>>, Txt("the text of a.py", 35000), FALSE, FALSE),
   Result("failure", <<>>,
          Str("Failed to read file a.py: ENOENT: no such file or directory, open 'a.py'"),
          FALSE, FALSE)}

\* classifyReadFileErrorKind on the error of a failed read: ENOENT is
\* NOT_FOUND.
classifyReadFileErrorKind(res) ==
  IF res.status = "failure"
     /\ res.text = Str("Failed to read file a.py: ENOENT: no such file or directory, open 'a.py'")
  THEN "NOT_FOUND" ELSE ""

TestRunResults ==
  {Result("success", <<0>>, Str("1 passed in 0.01s"), FALSE, FALSE),
   Result("success", <<0>>, Str("FAILED (failures=1)"), TRUE, FALSE),
   Result("failure", <<1>>, Str("1 failed in 0.01s"), FALSE, FALSE),
   Result("failure", <<>>, Str("terminal_run: TIMEOUT after 30000ms: pytest -q"),
          FALSE, FALSE)}

ShellRunResults ==
  {Result("success", <<0>>, Str("Execution result has no return content"), FALSE, FALSE),
   Result("failure", <<1>>, Str("ls: cannot access 'out': No such file or directory"),
          FALSE, FALSE),
   Result("failure", <<2>>, Str("ls: invalid option -- 'y'"), FALSE, FALSE)}

TestRunnerCommands == {"pytest", "nose2", "jest", "vitest", "mocha", "ctest"}

isTestCommand(p) == OrEmpty(p.command) \in TestRunnerCommands

RuntimeResults(action) ==
  CASE action.type = "write_code" -> WriteCodeResults
    [] action.type = "read_file" -> ReadFileResults
    [] action.type = "terminal_run" ->
         IF isTestCommand(action.params) THEN TestRunResults ELSE ShellRunResults
    [] OTHER -> {Result("failure", <<>>, Str("Unknown action type"), FALSE, FALSE)}

AllResults == WriteCodeResults \cup ReadFileResults \cup TestRunResults \cup ShellRunResults

buildVisibleActionResultText(res) == sanitizeAbsolutePath(res.text)

\* handle_memory stores a success of any tool and a failure of terminal_run
\* or read_file, when the result has a text to show.
shouldStore(res, action) ==
  /\ res.status = "success" \/ action.type \in {"terminal_run", "read_file"}
  /\ buildVisibleActionResultText(res).len > 0

\* handle_memory: the result is stored as a user message of the tool's
\* action_type.
handle_memory(res, action, mem) ==
  IF shouldStore(res, action)
  THEN Add(mem, "user", buildVisibleActionResultText(res), action.type,
           action.type \in MemoryTools, CallerMeta(action.type))
  ELSE mem

getTerminalRunExitCode(res) == res.exitCode

isTerminalFailure(action, res) ==
  /\ action.type = "terminal_run"
  /\ \/ res.status = "failure"
     \/ (res.exitCode # <<>> /\ res.exitCode # <<0>>)
     \/ res.signature

isExpectedTestFailure(action, res) ==
  /\ action.type = "terminal_run"
  /\ isTestCommand(action.params)
  /\ \/ (getTerminalRunExitCode(res) # <<>> /\ getTerminalRunExitCode(res) # <<0>>)
     \/ res.signature

\* A loop that leaves the prompt mode as it is.
keepPromptMode(mode, action, res) == mode

updatePromptModeFromTerminalRun(mode, action, res) ==
  IF action.type # "terminal_run" THEN mode
  ELSE IF isTerminalFailure(action, res) THEN "codecorrector" ELSE "build"

\* The reflection collaborator: an evaluator that judges a result either way,
\* or one that goes by the status of the result.
ReflectionStatuses(res, evaluator) ==
  IF evaluator = "by_status" THEN {res.status} ELSE {"success", "failure"}

\* Its comments on a failure: the error of a failed result, its own
\* evaluation of a successful one.
ReflectionComments(res) ==
  IF res.status = "failure" THEN res.text
  ELSE Str("The result does not meet the requirement.")

\* A loop that counts every failure of an action as a technical failure.
ClassifyFailureAsTechnical(action, res) == "technical"

\* The class of a failure the reflection reports.
ClassifyFailure(action, res) ==
  IF isExpectedTestFailure(action, res) THEN "expected_test_failure"
  ELSE IF /\ action.type = "terminal_run"
          /\ res.status = "failure"
          /\ getTerminalRunExitCode(res) = <<1>>
       THEN "non_fatal_exit1"
       ELSE "technical"

\* retryHandle: shouldContinue
retryHandle(count, maxRetries) == count < maxRetries

\* finish_action: the status of the result, the finish status it records and
\* whether the action's status was SUCCESS or FAILED.
finish_action(action) ==
  LET finishStatus == IF action.params.status = Undefined THEN ""
                      ELSE toUpperCase(action.params.status)
  IN IF finishStatus \notin {"SUCCESS", "FAILED"}
     THEN [status |-> "failure", finish_status |-> OrEmpty(action.params.status),
           finish_status_valid |-> FALSE,
           comments |-> "Invalid finish.status. Expected \"SUCCESS\" or \"FAILED\", got: "
                          \o (IF action.params.status = Undefined THEN "(missing)"
                              ELSE "\"" \o action.params.status \o "\"")
                          \o ". Emit <finish> with params.status=\"SUCCESS\" or params.status=\"FAILED\"."]
     ELSE [status |-> IF finishStatus = "FAILED" THEN "failure" ELSE "success",
           finish_status |-> finishStatus, finish_status_valid |-> TRUE,
           comments |-> IF finishStatus = "FAILED" THEN "Task Failed (explicit)."
                        ELSE "Task Success !"]

\* checkActionToBeContinue of ./message: no action is held back as
\* 'to be continue'.
checkActionToBeContinue(action) == ""

----------------------------------------------------------------------------
(* completeCodeAct: the control loop.                                       *)
(* pc is the position of the loop: "top" at the head of the body of the     *)
(* while loop, "think" before thinking(), "act" at the head of the body of  *)
(* the for loop over actionsToExecute, "exec" at the                        *)
(* call of runtime.execute_action, "reflect" at the call of reflection,     *)
(* "end" after the for loop, "done" once completeCodeAct has returned.      *)
(* result names what it returned.  The task names no tool of its own        *)
(* (task.tools is empty).                                                   *)

MAX_CONTENT_LENGTH == 50000

\* What the properties read of a run: the raw output of the turn, the log of
\* the turn (one entry when the handling of an action starts and one when a
\* dispatched action completes), the number of consecutive technical
\* failures, the class and the retryCount at the last reflection, the failure
\* the stored reflection comes from (<<>> when there is none), and what the
\* last recheck of the transient read errors found.
NoHistory ==
  [raw |-> Output("", <<>>), log |-> <<>>, consecFail |-> 0, lastClass |-> "",
   retryBefore |-> 0, previous |-> "", tasks |-> 1, from |-> <<>>, recheck |-> <<>>,
   empties |-> 0]

\* The failure a reflection comes from: the transient failure of the read of
\* a path, or any other failure.
ReflectionOrigin(action, res) ==
  IF /\ action.type = "read_file" /\ res.status = "failure"
     /\ classifyReadFileErrorKind(res) \in {"NOT_FOUND", "INACCESSIBLE"}
  THEN <<"read_file", OrEmpty(action.params.path)>>
  ELSE <<"other">>

LogEntry(i, kind, ctl, retry) == [i |-> i, kind |-> kind, ctl |-> ctl, retry |-> retry]

InitLoop ==
  /\ pc = "top" /\ retryCount = 0 /\ output = EmptyContent /\ actions = <<>>
  /\ idx = 0 /\ multiActionMode = FALSE /\ requestedRetry = FALSE
  /\ requestedRetryNoPenalty = FALSE /\ action_result = NoResult
  /\ prompt_mode = "build" /\ reflection = "" /\ last_finish_status = ""
  /\ result = "" /\ turns = 0 /\ errorFeedback = NoErrorFeedback /\ hist = NoHistory

\* How the body of the for loop treats an action.
ActionKind(action) ==
  IF action.type = "evaluation" /\ action.params.status = "failure" THEN "invalid_block"
  ELSE IF validateActionArgs(action) # "" THEN "invalid_args"
  ELSE IF action.type \in {"revise_plan", "pause_for_user_input"} THEN "route"
  ELSE IF action.type = "patch_complete" THEN "patch_complete"
  ELSE IF action.type = "information" THEN "information"
  ELSE IF action.type = "finish"
       THEN IF finish_action(action).finish_status_valid THEN "finish"
            ELSE "invalid_finish"
  ELSE IF checkActionToBeContinue(action) = "to be continue" THEN "to_be_continue"
  ELSE "dispatch"

\* A loop that gives up the turn at an invalid action.
ControlAfterStoppingAtInvalid(kind) ==
  CASE kind \in {"invalid_block", "invalid_args"} -> "break"
    [] kind \in {"information", "to_be_continue"} -> "continue"
    [] kind \in {"patch_complete", "invalid_finish"} -> "break"
    [] kind \in {"route", "finish"} -> "return"
    [] OTHER -> "dispatch"

\* A loop that hands the actions it should treat itself to the runtime.
ControlAfterDispatchingLocal(kind) ==
  CASE kind \in {"invalid_block", "invalid_args", "to_be_continue"} -> "continue"
    [] kind = "invalid_finish" -> "break"
    [] kind \in {"route", "finish"} -> "return"
    [] OTHER -> "dispatch"

\* What the body of the for loop does after it has treated an action.
ControlAfter(kind) ==
  CASE kind \in {"invalid_block", "invalid_args", "information", "to_be_continue"}
         -> "continue"
    [] kind \in {"patch_complete", "invalid_finish"} -> "break"
    [] kind \in {"route", "finish"} -> "return"
    [] OTHER -> "dispatch"

\* A for loop in which break goes on to the next action.
NextPositionIgnoringBreak(ctl, i, n) ==
  CASE ctl = "dispatch" -> [pc |-> "exec", idx |-> i]
    [] ctl = "return" -> [pc |-> "done", idx |-> i]
    [] OTHER -> IF i < n THEN [pc |-> "act", idx |-> i + 1]
                ELSE [pc |-> "end", idx |-> i]

\* The position of the loop after continue, break, return or the dispatch of
\* action i of n.
NextPosition(ctl, i, n) ==
  CASE ctl = "dispatch" -> [pc |-> "exec", idx |-> i]
    [] ctl = "return" -> [pc |-> "done", idx |-> i]
    [] ctl = "break" -> [pc |-> "end", idx |-> i]
    [] OTHER -> IF i < n THEN [pc |-> "act", idx |-> i + 1]
                ELSE [pc |-> "end", idx |-> i]

\* A multi-action turn that stores no call message of its own.
InjectNoCall(mem, multi, action) == mem

\* In multi-action mode the call of each action is stored, as its own
\* assistant message, right before the action is treated.
InjectCall(mem, multi, action) ==
  IF multi THEN AddText(mem, "assistant", InjectedCall(action)) ELSE mem

MaxRetriesResult(errorMessage) ==
  "Reached the maximum number of consecutive "
    \o (IF errorMessage THEN "exceptions" ELSE "execution failures")
    \o " (" \o ToString(MAX_RETRY_TIMES) \o ")"

\* The error-feedback bookkeeping after execute_action: a write_code that
\* succeeds on a path whose read_file had failed schedules a recheck; a
\* read_file that fails with NOT_FOUND or INACCESSIBLE is recorded as
\* transient and as the source of the reflection; any other failure makes
\* the source 'other'.
trackReadFileErrors(state, action, res) ==
  LET p == OrEmpty(action.params.path)
      scheduled ==
        IF /\ action.type = "write_code" /\ res.status = "success" /\ p # ""
           /\ p \in state.readFileTransientByPath
        THEN [state EXCEPT !.candidatesToRevalidate = @ \cup {p}]
        ELSE state
  IN IF action.type = "read_file" /\ res.status = "failure" /\ p # ""
     THEN IF classifyReadFileErrorKind(res) \in {"NOT_FOUND", "INACCESSIBLE"}
          THEN [scheduled EXCEPT !.readFileTransientByPath = @ \cup {p},
                                 !.lastReflectionSource = <<"read_file", p>>]
          ELSE [scheduled EXCEPT !.lastReflectionSource = <<"other">>]
     ELSE IF res.status = "failure"
          THEN [scheduled EXCEPT !.lastReflectionSource = <<"other">>]
          ELSE scheduled

\* state.lastReflectionSource = state.lastReflectionSource || {type: 'other'}
keepReflectionSource(state) ==
  IF state.lastReflectionSource = <<>>
  THEN [state EXCEPT !.lastReflectionSource = <<"other">>]
  ELSE state

\* maybeRevalidateErrorFeedback, at the head of every turn: each scheduled
\* path is read again; a path that now reads is no longer transient, and the
\* reflection is cleared when it came from the failed read of that path.
RevalidateErrorFeedback ==
  /\ pc = "top"
  /\ \E ok \in SUBSET errorFeedback.candidatesToRevalidate :
       /\ errorFeedback' = [errorFeedback EXCEPT !.candidatesToRevalidate = {},
                                                 !.readFileTransientByPath = @ \ ok]
       /\ reflection' = (IF \E p \in ok :
                               errorFeedback.lastReflectionSource = <<"read_file", p>>
                         THEN "" ELSE reflection)
       /\ hist' = [hist EXCEPT
                     !.recheck = IF ok = {} THEN <<>>
                                 ELSE <<[ok |-> ok, before |-> reflection, from |-> hist.from]>>,
                     !.from = IF \E p \in ok :
                                   errorFeedback.lastReflectionSource = <<"read_file", p>>
                              THEN <<>> ELSE @]
  /\ pc' = "think"
  /\ UNCHANGED <<memVars, concVars, calls, retryCount, output, actions, idx,
                 multiActionMode, requestedRetry, requestedRetryNoPenalty, action_result,
                 prompt_mode, last_finish_status, result, turns>>

\* The caller runs completeCodeAct on the next task with the context of the
\* task that has returned: the task has a memory of its own and counts its
\* retries from 0, while prompt_mode, reflection, last_finish_status and the
\* error feedback state stay on the context.
NewTask(maxTasks) ==
  /\ pc = "done"
  /\ hist.tasks < maxTasks
  /\ messages' = <<>>
  /\ pendingRepeatError' = <<>>
  /\ pc' = "top"
  /\ retryCount' = 0
  /\ output' = EmptyContent
  /\ actions' = <<>>
  /\ idx' = 0
  /\ multiActionMode' = FALSE
  /\ requestedRetry' = FALSE
  /\ requestedRetryNoPenalty' = FALSE
  /\ action_result' = NoResult
  /\ result' = ""
  /\ turns' = 0
  /\ hist' = [NoHistory EXCEPT !.previous = result, !.tasks = hist.tasks + 1,
                               !.from = hist.from]
  /\ UNCHANGED <<concVars, calls, prompt_mode, reflection, last_finish_status, errorFeedback>>

\* Steps 1 and 2: thinking() stores the normalized output and returns it; an
\* empty output is dropped and answered by a correction; otherwise the
\* output is parsed and, when it holds several actions, its message is
\* removed from the memory.
Think(outputs, maxTurns) ==
  /\ pc = "think"
  /\ turns < maxTurns
  /\ \E raw \in outputs :
       LET o == normalizeAssistantOutputForMemory(raw)
           content == OutputContent(o)
           st == maybeExtractFinishStatus(o)
           mem1 == AddText(Mem(messages, pendingRepeatError), "assistant", content)
           parsed == resolveActionsFromLLMOutput(o)
           empty == content.len = 0
           multi == ~empty /\ Len(parsed) > 1
           mem2 == IF empty THEN DropAndCorrect(mem1, content, EmptyOutputCorrection)
                   ELSE IF multi THEN removeLastAssistantMessage(mem1)
                   ELSE mem1
       IN /\ messages' = mem2.msgs
          /\ pendingRepeatError' = mem2.pending
          /\ last_finish_status' = (IF st # "" THEN st ELSE last_finish_status)
          /\ output' = content
          /\ actions' = (IF empty THEN <<>> ELSE parsed)
          /\ multiActionMode' = multi
          /\ retryCount' = (IF empty THEN retryCount + 1 ELSE retryCount)
          /\ pc' = (IF empty THEN "top" ELSE IF Len(parsed) = 0 THEN "end" ELSE "act")
          /\ idx' = (IF empty \/ Len(parsed) = 0 THEN 0 ELSE 1)
          /\ hist' = [hist EXCEPT !.raw = raw, !.log = <<>>,
                                  !.empties = IF empty THEN @ + 1 ELSE 0]
  /\ requestedRetry' = FALSE
  /\ requestedRetryNoPenalty' = FALSE
  /\ turns' = turns + 1
  /\ UNCHANGED <<concVars, calls, action_result, prompt_mode, reflection, result,
                 errorFeedback>>

\* The errors the LLM call raises to pause the task: a failed LLM call and
\* an insufficient credits balance.
PauseRequiredErrors == {"LLM Call Failed", "Insufficient credits balance"}

\* isPauseRequiredError of @src/utils/errors
isPauseRequiredError(error) == error \in PauseRequiredErrors

\* An LLM call that raises an error, handled as the catch block handles an
\* error that is not pause-required: a user message and one retry.
ThinkRaisesCounted(errors, maxTurns) ==
  /\ pc = "think"
  /\ turns < maxTurns
  /\ \E error \in errors :
       LET mem1 == AddText(Mem(messages, pendingRepeatError), "user", Str(error))
           stop == ~retryHandle(retryCount, MAX_RETRY_TIMES)
       IN /\ messages' = mem1.msgs
          /\ pendingRepeatError' = mem1.pending
          /\ retryCount' = (IF stop THEN retryCount ELSE retryCount + 1)
          /\ result' = (IF stop THEN MaxRetriesResult(TRUE) ELSE result)
          /\ pc' = (IF stop THEN "done" ELSE "top")
          /\ hist' = [hist EXCEPT !.log = <<>>, !.lastClass = "pause",
                                  !.retryBefore = retryCount, !.empties = 0]
  /\ turns' = turns + 1
  /\ UNCHANGED <<concVars, calls, output, actions, idx, multiActionMode, requestedRetry,
                 requestedRetryNoPenalty, action_result, prompt_mode, reflection,
                 last_finish_status, errorFeedback>>

\* The LLM call of a turn raises an error: thinking has stored nothing yet,
\* and the catch block returns at once when the error is pause-required.
ThinkRaises(errors, maxTurns) ==
  /\ pc = "think"
  /\ turns < maxTurns
  /\ \E error \in errors :
       /\ isPauseRequiredError(error)
       /\ result' = error
       /\ pc' = "done"
       /\ hist' = [hist EXCEPT !.log = <<>>, !.lastClass = "pause",
                               !.retryBefore = retryCount, !.empties = 0]
  /\ turns' = turns + 1
  /\ UNCHANGED <<memVars, concVars, calls, retryCount, output, actions, idx,
                 multiActionMode, requestedRetry, requestedRetryNoPenalty, action_result,
                 prompt_mode, reflection, last_finish_status, errorFeedback>>

\* The body of the for loop up to the call of the runtime: the injection of
\* the call, the invalid block, the validation of the arguments, the actions
\* the loop treats itself, and finish.
StartAction ==
  /\ pc = "act"
  /\ LET action == actions[idx]
         kind == ActionKind(action)
         ctl == ControlAfter(kind)
         fin == finish_action(action)
         mem1 == InjectCall(Mem(messages, pendingRepeatError), multiActionMode, action)
         mem2 == CASE kind = "invalid_block" ->
                        AddText(mem1, "user",
                                sanitizeAbsolutePath(Str(OrEmpty(action.params.comments))))
                   [] kind = "invalid_args" ->
                        AddText(mem1, "user",
                                sanitizeAbsolutePath(Str(validateActionArgs(action)
                                                           \o " (This action was skipped.)")))
                   [] kind \in {"patch_complete", "information"} ->
                        AddText(mem1, "user", Acknowledged)
                   [] kind = "invalid_finish" ->
                        AddText(mem1, "user", sanitizeAbsolutePath(Str(fin.comments)))
                   [] OTHER -> mem1
         retry == requestedRetry \/ kind \in {"patch_complete", "invalid_finish"}
         next == NextPosition(ctl, idx, Len(actions))
     IN /\ messages' = mem2.msgs
        /\ pendingRepeatError' = mem2.pending
        /\ prompt_mode' = (IF kind = "patch_complete" THEN "build" ELSE prompt_mode)
        /\ requestedRetry' = retry
        /\ requestedRetryNoPenalty' = (requestedRetryNoPenalty \/ kind = "invalid_finish")
        /\ reflection' = (CASE kind = "invalid_finish" -> fin.comments
                            [] kind = "finish" /\ fin.finish_status = "SUCCESS" -> ""
                            [] OTHER -> reflection)
        /\ last_finish_status' = (IF kind = "finish" THEN fin.finish_status
                                  ELSE last_finish_status)
        /\ result' = (CASE kind = "route" -> action.type
                        [] kind = "finish" -> "finish:" \o fin.status
                        [] OTHER -> result)
        /\ pc' = next.pc
        /\ idx' = next.idx
        /\ hist' = [hist EXCEPT
                      !.log = Append(@, LogEntry(idx, kind, ctl, retry)),
                      !.from = CASE kind = "invalid_finish" -> <<"other">>
                                 [] kind = "finish" /\ fin.finish_status = "SUCCESS" -> <<>>
                                 [] OTHER -> @]
  /\ UNCHANGED <<concVars, calls, retryCount, output, actions, multiActionMode,
                 action_result, turns, errorFeedback>>

\* Step 5: runtime.execute_action, with one of the outcomes the environment
\* allows.  The tool returns a result, which
\* handle_memory records and which sets the prompt mode, or it throws, and
\* the catch of the loop stores the error and counts it.
ExecuteAction(outcomes) ==
  /\ pc = "exec"
  /\ \E res \in RuntimeResults(actions[idx]) \cap outcomes :
       LET action == actions[idx]
           mem0 == Mem(messages, pendingRepeatError)
           mem1 == IF res.thrown
                   THEN AddText(mem0, "user", sanitizeAbsolutePath(res.text))
                   ELSE handle_memory(res, action, mem0)
           stop == res.thrown /\ ~retryHandle(retryCount, MAX_RETRY_TIMES)
       IN /\ messages' = mem1.msgs
          /\ pendingRepeatError' = mem1.pending
          /\ action_result' = res
          /\ prompt_mode' = (IF res.thrown THEN prompt_mode
                             ELSE updatePromptModeFromTerminalRun(prompt_mode, action, res))
          /\ retryCount' = (IF res.thrown /\ ~stop THEN retryCount + 1 ELSE retryCount)
          /\ result' = (IF stop THEN MaxRetriesResult(TRUE) ELSE result)
          /\ pc' = (IF stop THEN "done" ELSE IF res.thrown THEN "top" ELSE "reflect")
          /\ errorFeedback' = (IF res.thrown THEN errorFeedback
                               ELSE trackReadFileErrors(errorFeedback, action, res))
          /\ hist' = (IF res.thrown
                      THEN [hist EXCEPT !.log = Append(@, LogEntry(idx, "thrown", "break",
                                                                   requestedRetry)),
                                        !.consecFail = @ + 1,
                                        !.lastClass = "exception",
                                        !.retryBefore = retryCount]
                      ELSE hist)
  /\ UNCHANGED <<concVars, calls, output, actions, idx, multiActionMode, requestedRetry,
                 requestedRetryNoPenalty, reflection, last_finish_status, turns>>

\* Steps 6 and 7: the reflection on the result and what the loop makes of it.
Reflect(evaluator) ==
  /\ pc = "reflect"
  /\ \E status \in ReflectionStatuses(action_result, evaluator) :
       LET action == actions[idx]
           class == IF status = "success" THEN "success"
                    ELSE ClassifyFailure(action, action_result)
           comments == sanitizeAbsolutePath(ReflectionComments(action_result))
           stop == class = "technical" /\ ~retryHandle(retryCount, MAX_RETRY_TIMES)
           ctl == IF class = "success" THEN "continue"
                  ELSE IF stop THEN "return" ELSE "break"
           mem0 == Mem(messages, pendingRepeatError)
           mem1 == IF class = "success" \/ stop THEN mem0
                   ELSE AddText(mem0, "user", comments)
           retry == requestedRetry \/ ctl = "break"
           next == NextPosition(ctl, idx, Len(actions))
       IN /\ messages' = mem1.msgs
          /\ pendingRepeatError' = mem1.pending
          /\ retryCount' = (CASE class = "technical" /\ ~stop -> retryCount + 1
                              [] class = "technical" /\ stop -> retryCount
                              [] OTHER -> 0)
          /\ reflection' = (IF ctl = "break" THEN comments.txt ELSE reflection)
          /\ requestedRetry' = retry
          /\ requestedRetryNoPenalty' =
               (requestedRetryNoPenalty
                  \/ class \in {"expected_test_failure", "non_fatal_exit1"})
          /\ result' = (IF stop THEN MaxRetriesResult(comments.len > 0) ELSE result)
          /\ pc' = next.pc
          /\ idx' = next.idx
          /\ errorFeedback' = (IF ctl = "break"
                               THEN keepReflectionSource(errorFeedback)
                               ELSE errorFeedback)
          /\ hist' = [hist EXCEPT
                        !.log = Append(@, LogEntry(idx, "completed", ctl, retry)),
                        !.consecFail = IF class = "technical" THEN @ + 1 ELSE 0,
                        !.lastClass = class,
                        !.retryBefore = retryCount,
                        !.from = IF ctl = "break"
                                 THEN ReflectionOrigin(action, action_result) ELSE @]
  /\ UNCHANGED <<concVars, calls, output, actions, multiActionMode, action_result,
                 prompt_mode, last_finish_status, turns>>

\* After the for loop: the retry a failure requested, or the output that
\* resolved to no action, or the next turn.
EndTurn ==
  /\ pc = "end"
  /\ LET noAction == ~requestedRetry /\ Len(actions) = 0
         tooLong == noAction /\ output.len > MAX_CONTENT_LENGTH
         stop == noAction /\ ~tooLong /\ ~retryHandle(retryCount, MAX_RETRY_TIMES)
         mem0 == Mem(messages, pendingRepeatError)
         mem1 == IF noAction /\ ~tooLong /\ ~stop
                 THEN DropAndCorrect(mem0, output, UnresolvedCorrection)
                 ELSE mem0
         handleRetry == (requestedRetry /\ ~requestedRetryNoPenalty)
                          \/ (noAction /\ ~tooLong /\ ~stop)
     IN /\ messages' = mem1.msgs
        /\ pendingRepeatError' = mem1.pending
        /\ retryCount' = (IF handleRetry THEN retryCount + 1 ELSE retryCount)
        /\ result' = (CASE tooLong -> "Model output exception, stopping task"
                        [] stop -> MaxRetriesResult(FALSE)
                        [] OTHER -> result)
        /\ pc' = (IF tooLong \/ stop THEN "done" ELSE "top")
  /\ UNCHANGED <<concVars, calls, output, actions, idx, multiActionMode, requestedRetry,
                 requestedRetryNoPenalty, action_result, prompt_mode, reflection,
                 last_finish_status, turns, errorFeedback, hist>>

----------------------------------------------------------------------------
(* The outputs of the LLM.  Every block carries a known tool tag, so that   *)
(* block i of an output resolves to action i of the turn, and no output has *)
(* a closing tag of the tool of an unterminated block after that block.     *)

Params(path, content, command, args, status, message) ==
  [NoParams EXCEPT !.path = path, !.content = content, !.command = command,
                   !.args = args, !.status = status, !.message = message]

\* A closed block in the canonical form, child tag by child tag.
TagBlock(tool, params) ==
  Block(tool, "tags", params, serializeActionToXml(Action(tool, params)))

WriteA ==
  TagBlock("write_code",
           Params("a.py", "print(1)", Undefined, Undefined, Undefined, Undefined))

ReadA ==
  TagBlock("read_file",
           Params("a.py", Undefined, Undefined, Undefined, Undefined, Undefined))

RunLs ==
  TagBlock("terminal_run",
           Params(Undefined, Undefined, "ls", "out", Undefined, Undefined))

RunTest ==
  TagBlock("terminal_run",
           Params(Undefined, Undefined, "pytest", "-q", Undefined, Undefined))

FinishOk ==
  TagBlock("finish",
           Params(Undefined, Undefined, Undefined, Undefined, "SUCCESS", "done"))

FinishFailedLower ==
  TagBlock("finish",
           Params(Undefined, Undefined, Undefined, Undefined, "failed", "gave up"))

FinishNoStatus ==
  TagBlock("finish",
           Params(Undefined, Undefined, Undefined, Undefined, Undefined, "done"))

FinishBadStatus ==
  TagBlock("finish",
           Params(Undefined, Undefined, Undefined, Undefined, "DONE", "done"))

\* <finish message="done"/>: the attribute form, without a status
FinishAttrNoStatus ==
  Block("finish", "attr",
        Params(Undefined, Undefined, Undefined, Undefined, Undefined, "done"),
        "<finish message=\"done\"/>")

WriteNoPath ==
  Block("write_code", "tags",
        Params(Undefined, "print(1)", Undefined, Undefined, Undefined, Undefined),
        "<write_code><content><![CDATA[print(1)]]></content></write_code>")

RunWithPath ==
  Block("terminal_run", "tags",
        Params("a.py", "print(1)", Undefined, Undefined, Undefined, Undefined),
        "<terminal_run><path>a.py</path><content><![CDATA[print(1)]]></content></terminal_run>")

UnterminatedWrite ==
  Block("write_code", "open",
        Params("a.py", "print(1)", Undefined, Undefined, Undefined, Undefined),
        "<write_code><path>a.py</path><content><![CDATA[print(1)]]></content>")

Information ==
  TagBlock("information",
           Params(Undefined, Undefined, Undefined, Undefined, Undefined, "writing a.py"))

PatchComplete == Block("patch_complete", "attr", NoParams, "<patch_complete/>")

----------------------------------------------------------------------------
(* Spec: turns of one action each.                                          *)

MaxTurns == 2

Outputs ==
  {Output("", <<>>),
   Output("I will look at the files first.", <<>>),
   Output("", <<WriteA>>),
   Output("", <<RunLs>>),
   Output("", <<RunTest>>),
   Output("", <<FinishOk>>),
   Output("", <<FinishFailedLower>>),
   Output("", <<FinishNoStatus>>),
   Output("", <<FinishBadStatus>>),
   Output("", <<FinishAttrNoStatus>>),
   Output("", <<WriteNoPath>>),
   Output("", <<UnterminatedWrite>>)}

Init == MemoryEmpty /\ ConcIdle /\ InitLoop /\ calls = 0

Next ==
  \/ RevalidateErrorFeedback
  \/ Think(Outputs, MaxTurns)
  \/ StartAction
  \/ ExecuteAction(AllResults)
  \/ Reflect("any")
  \/ EndTurn

Spec == Init /\ [][Next]_vars

----------------------------------------------------------------------------
(* SpecMulti: turns of several actions.                                     *)

MaxMultiTurns == 1

MultiOutputs ==
  {Output("", <<WriteA, ReadA>>),
   Output("", <<ReadA, ReadA>>),
   Output("", <<WriteNoPath, ReadA>>),
   Output("", <<RunWithPath, ReadA>>),
   Output("", <<ReadA, UnterminatedWrite, RunLs>>),
   Output("", <<WriteA, WriteNoPath, RunLs>>),
   Output("", <<Information, WriteA, ReadA>>),
   Output("", <<PatchComplete, ReadA>>),
   Output("", <<ReadA, FinishOk>>),
   Output("Writing the file. ", <<WriteA>>)}

InitMulti == MemoryEmpty /\ ConcIdle /\ InitLoop /\ calls = 0

NextMulti ==
  \/ RevalidateErrorFeedback
  \/ Think(MultiOutputs, MaxMultiTurns)
  \/ StartAction
  \/ ExecuteAction(AllResults)
  \/ Reflect("any")
  \/ EndTurn

SpecMulti == InitMulti /\ [][NextMulti]_vars

----------------------------------------------------------------------------
(* SpecRetry: a task whose every turn runs a shell command, which succeeds  *)
(* or fails with exit code 2, the reflection agreeing with the runtime.     *)

MaxRetryTurns == 6

RetryOutputs == {Output("", <<RunLs>>)}

RetryResults == {r \in ShellRunResults : r.exitCode \in {<<0>>, <<2>>}}

InitRetry == MemoryEmpty /\ ConcIdle /\ InitLoop /\ calls = 0

NextRetry ==
  \/ RevalidateErrorFeedback
  \/ Think(RetryOutputs, MaxRetryTurns)
  \/ StartAction
  \/ ExecuteAction(RetryResults)
  \/ Reflect("by_status")
  \/ EndTurn

SpecRetry == InitRetry /\ [][NextRetry]_vars

----------------------------------------------------------------------------
(* SpecEmpty: a task that reads a file, the LLM answering some turns with   *)
(* an empty output.                                                         *)

MaxEmptyTurns == 3

EmptyOutputs == {Output("", <<>>), Output("", <<ReadA>>)}

InitEmpty == MemoryEmpty /\ ConcIdle /\ InitLoop /\ calls = 0

NextEmpty ==
  \/ RevalidateErrorFeedback
  \/ Think(EmptyOutputs, MaxEmptyTurns)
  \/ StartAction
  \/ ExecuteAction(ReadFileResults)
  \/ Reflect("by_status")
  \/ EndTurn

SpecEmpty == InitEmpty /\ [][NextEmpty]_vars

----------------------------------------------------------------------------
(* SpecThrow: a task whose every turn writes a file, the write succeeding   *)
(* or throwing.                                                             *)

MaxThrowTurns == 11

ThrowOutputs == {Output("", <<WriteA>>)}

ThrowResults == {r \in WriteCodeResults : r.thrown \/ r.status = "success"}

InitThrow == MemoryEmpty /\ ConcIdle /\ InitLoop /\ calls = 0

NextThrow ==
  \/ RevalidateErrorFeedback
  \/ Think(ThrowOutputs, MaxThrowTurns)
  \/ StartAction
  \/ ExecuteAction(ThrowResults)
  \/ Reflect("by_status")
  \/ EndTurn

SpecThrow == InitThrow /\ [][NextThrow]_vars

----------------------------------------------------------------------------
(* SpecPause: a task that writes a file, the write succeeding or throwing,  *)
(* and whose LLM call may raise a pause-required error.                     *)

MaxPauseTurns == 4

PauseOutputs == {Output("", <<>>), Output("", <<WriteA>>)}

InitPause == MemoryEmpty /\ ConcIdle /\ InitLoop /\ calls = 0

NextPause ==
  \/ RevalidateErrorFeedback
  \/ Think(PauseOutputs, MaxPauseTurns)
  \/ ThinkRaises(PauseRequiredErrors, MaxPauseTurns)
  \/ StartAction
  \/ ExecuteAction(ThrowResults)
  \/ Reflect("by_status")
  \/ EndTurn

SpecPause == InitPause /\ [][NextPause]_vars

----------------------------------------------------------------------------
(* SpecTasks: the tasks of one conversation, run one after the other on the *)
(* same context.                                                            *)

MaxTasks == 2

MaxTaskTurns == 2

TaskOutputs ==
  {Output("", <<WriteA>>),
   Output("", <<FinishOk>>),
   Output("", <<FinishFailedLower>>),
   Output("", <<FinishBadStatus>>)}

InitTasks == MemoryEmpty /\ ConcIdle /\ InitLoop /\ calls = 0

NextTasks ==
  \/ NewTask(MaxTasks)
  \/ RevalidateErrorFeedback
  \/ Think(TaskOutputs, MaxTaskTurns)
  \/ StartAction
  \/ ExecuteAction(WriteCodeResults)
  \/ Reflect("any")
  \/ EndTurn

SpecTasks == InitTasks /\ [][NextTasks]_vars

----------------------------------------------------------------------------
(* SpecPrune: one caller appends large tool calls and answers to a task's   *)
(* memory, so that both prunings of addMessage take place.                  *)

MaxPruneCalls == 8

BigWriteCall ==
  Call("assistant", Xml("write_code", "a.py", "a module of 15000 characters", 15000), "",
       FALSE, NoMeta)

ReadOtherCall == Call("assistant", Xml("read_file", "b.py", "", 60), "", FALSE, NoMeta)

PruneCalls == {BigWriteCall, ReadOtherCall, LongAnswer, AcknowledgedCall}

InitPrune == MemoryEmpty /\ ConcIdle /\ LoopIdle /\ calls = 0

PruneAddMessage ==
  /\ calls < MaxPruneCalls
  /\ \E c \in PruneCalls :
       AddToMemory(c.role, c.content, c.action_type, c.memorized, c.meta)
  /\ calls' = calls + 1
  /\ UNCHANGED <<concVars, loopVars>>

NextPrune == PruneAddMessage

SpecPrune == InitPrune /\ [][NextPrune]_vars

----------------------------------------------------------------------------
(* SpecPaths: one caller appends answers of the LLM and results of tools    *)
(* whose text names a file of the conversation workspace, in each of the    *)
(* forms a path of the workspace takes.                                     *)

MaxPathCalls == 3

PathForms == {AbsPath, DotPath, RelPath, BarePath}

PathCalls ==
  {Call("user", WithPath(Txt("Wrote file a.py", 15), f), "write_code", TRUE,
        CallerMeta("write_code")) : f \in PathForms}
  \cup {Call("assistant", WithPath(Txt("I wrote a.py", 12), f), "", FALSE, NoMeta) :
          f \in PathForms}
  \cup {AcknowledgedCall}

InitPaths == MemoryEmpty /\ ConcIdle /\ LoopIdle /\ calls = 0

PathAddMessage ==
  /\ calls < MaxPathCalls
  /\ \E c \in PathCalls :
       AddToMemory(c.role, c.content, c.action_type, c.memorized, c.meta)
  /\ calls' = calls + 1
  /\ UNCHANGED <<concVars, loopVars>>

NextPaths == PathAddMessage

SpecPaths == InitPaths /\ [][NextPaths]_vars

----------------------------------------------------------------------------
(* SpecSave: the saves of addMessage, byte run by byte run.  _saveMemory is *)
(* fs.writeFileSync on the memory file itself: the file is opened with      *)
(* truncation, the text of the list is written to it, and the file is       *)
(* closed.  A save ends early when a write fails (the error is thrown to    *)
(* the caller) or when the process dies; the next call starts from what     *)
(* _loadMemory reads in the file.                                           *)

MaxSaveCalls == 3

SaveCalls == {WriteCodeCall, WriteCodeResult, AcknowledgedCall}

\* _loadMemory: JSON.parse of the text of the file, and the empty list when
\* the file does not exist or its text does not parse.  The text of a list
\* parses only when it is there to its closing bracket.
loadMemory(file) ==
  IF file.exists /\ file.complete THEN file.data ELSE <<>>

InitSave == MemoryEmpty /\ ConcIdle /\ LoopIdle /\ calls = 0

\* addMessage up to the opening of the file by writeFileSync, which leaves
\* the file empty; an adjacent duplicate returns before the save.
SaveBegin ==
  /\ ~disk.writing
  /\ calls < MaxSaveCalls
  /\ \E c \in SaveCalls :
       LET r == addMessage(loadMemory(disk), pendingRepeatError, c.role, c.content,
                           c.action_type, c.memorized, c.meta)
       IN /\ pendingRepeatError' = r.pending
          /\ disk' = IF r.saved
                     THEN [exists |-> TRUE, prev |-> loadMemory(disk), data |-> r.msgs,
                           written |-> 0, complete |-> FALSE, writing |-> TRUE]
                     ELSE disk
  /\ messages' = loadMemory(disk')
  /\ calls' = calls + 1
  /\ UNCHANGED <<inflight, serialMessages, serialPending, probe, loopVars>>

\* One write of writeFileSync: the text of one more message is in the file.
SaveWrite ==
  /\ disk.writing
  /\ disk.written < Len(disk.data)
  /\ disk' = [disk EXCEPT !.written = @ + 1]
  /\ messages' = loadMemory(disk')
  /\ UNCHANGED <<pendingRepeatError, inflight, serialMessages, serialPending, probe,
                 calls, loopVars>>

\* The last write and the return of writeFileSync.
SaveEnd ==
  /\ disk.writing
  /\ disk.written = Len(disk.data)
  /\ disk' = [disk EXCEPT !.complete = TRUE, !.writing = FALSE]
  /\ messages' = loadMemory(disk')
  /\ UNCHANGED <<pendingRepeatError, inflight, serialMessages, serialPending, probe,
                 calls, loopVars>>

\* A write fails, and _saveMemory throws, or the process dies, and
\* _pendingRepeatError is lost with it: the file stays as the save left it.
SaveFails ==
  /\ disk.writing
  /\ disk' = [disk EXCEPT !.writing = FALSE]
  /\ messages' = loadMemory(disk')
  /\ pendingRepeatError' \in {pendingRepeatError, <<>>}
  /\ UNCHANGED <<inflight, serialMessages, serialPending, probe, calls, loopVars>>

NextSave == SaveBegin \/ SaveWrite \/ SaveEnd \/ SaveFails

SpecSave == InitSave /\ [][NextSave]_vars

----------------------------------------------------------------------------
(* SpecLocal: turns whose output holds an action the loop treats itself,    *)
(* information or patch_complete, alone or among actions of the runtime.    *)

MaxLocalTurns == 2

LocalOutputs ==
  {Output("", <<Information>>),
   Output("", <<PatchComplete>>),
   Output("", <<Information, WriteA>>),
   Output("", <<ReadA, Information, WriteA>>),
   Output("", <<ReadA, PatchComplete, WriteA>>),
   Output("", <<WriteA, Information>>)}

InitLocal == MemoryEmpty /\ ConcIdle /\ InitLoop /\ calls = 0

NextLocal ==
  \/ RevalidateErrorFeedback
  \/ Think(LocalOutputs, MaxLocalTurns)
  \/ StartAction
  \/ ExecuteAction(AllResults)
  \/ Reflect("by_status")
  \/ EndTurn

SpecLocal == InitLocal /\ [][NextLocal]_vars

----------------------------------------------------------------------------
(* terminal_run: the command of the tool run by child_process.exec, and the *)
(* result each runtime makes of it.                                         *)

TERMINAL_RUN_TIMEOUT_MS == 30000

\* The wall clock advances by steps of ten seconds: the timeout in steps.
TimeoutTicks == TERMINAL_RUN_TIMEOUT_MS \div 10000

\* error.code of the exec callback: the exit status of the child, null when
\* a signal ended it, the name of a system error when it did not start.
NullCode == [type |-> "null", n |-> 0]

NumberCode(n) == [type |-> "number", n |-> n]

StringCode == [type |-> "string", n |-> 0]

\* The error child_process.exec hands to its callback: killed is whether
\* exec itself killed the child, which it does at its timeout only.
ExecError(code, signal, killed) == [code |-> code, signal |-> signal, killed |-> killed]

NoExecError == <<>>

\* What the runtime reads of a terminal_run result: status, meta.exitCode
\* (<<>> when it is null or there is none), meta.timedOut (<<>> when there is
\* none) and which message stderr carries.
RunResult(status, exitCode, timedOut, stderr) ==
  [status |-> status, exitCode |-> exitCode, timedOut |-> timedOut, stderr |-> stderr]

TimeoutMessage == "terminal_run: TIMEOUT after 30000ms"

MissingCommandMessage == "terminal_run: missing or empty command"

\* A runCommand that takes the timeout of exec for a failure like any other.
runCommandWithoutTimeoutCase(error) ==
  IF error = NoExecError
  THEN [settled |-> "resolve", exitCode |-> <<0>>, code |-> NullCode, stderr |-> "",
        timedOut |-> FALSE]
  ELSE [settled |-> "reject",
        exitCode |-> IF error.code.type = "number" THEN <<error.code.n>> ELSE <<>>,
        code |-> error.code, stderr |-> "", timedOut |-> FALSE]

\* runCommand on a command that is a non-empty string without nohup: what
\* the promise is settled with, from the error of the exec callback.
runCommand(error) ==
  IF error = NoExecError
  THEN [settled |-> "resolve", exitCode |-> <<0>>, code |-> NullCode, stderr |-> "",
        timedOut |-> FALSE]
  ELSE IF error.killed /\ error.signal = "SIGKILL" /\ error.code.type # "number"
       THEN [settled |-> "reject", exitCode |-> <<>>, code |-> error.code,
             stderr |-> TimeoutMessage, timedOut |-> TRUE]
       ELSE [settled |-> "reject",
             exitCode |-> IF error.code.type = "number" THEN <<error.code.n>> ELSE <<>>,
             code |-> error.code, stderr |-> "", timedOut |-> FALSE]

\* terminal_run of terminal_run.js on the settlement of runCommand.
terminalRunResult(settlement) ==
  IF settlement.settled = "resolve"
  THEN RunResult("success", IF settlement.exitCode # <<>> THEN settlement.exitCode ELSE <<0>>,
                 <<>>, settlement.stderr)
  ELSE RunResult("failure",
                 IF settlement.exitCode # <<>> THEN settlement.exitCode
                 ELSE IF settlement.code.type = "number" THEN <<settlement.code.n>>
                      ELSE <<>>,
                 <<settlement.timedOut>>, settlement.stderr)

\* terminal_run on a missing or empty command: no execution, and a meta that
\* holds action_type only.
MissingCommandResult == RunResult("failure", <<>>, <<>>, MissingCommandMessage)

\* runCommand on a command with nohup: the child is detached and the promise
\* is resolved at once.
NohupResult == RunResult("success", <<0>>, <<>>, "")

\* A runtime that hands the result of the sandbox on as it is.
keepTerminalRunResultShape(data) == data

\* normalizeTerminalRunResultShape of DockerRuntime.local.js, and
\* normalizeTerminalRunResult of the sandbox server before it: a missing
\* exitCode becomes 1 on failure and 0 on success.
normalizeTerminalRunResultShape(data) ==
  IF data.exitCode # <<>> THEN data
  ELSE IF data.status = "failure" THEN [data EXCEPT !.exitCode = <<1>>]
  ELSE IF data.status = "success" THEN [data EXCEPT !.exitCode = <<0>>]
  ELSE data

\* _call_docker_action when the sandbox does not answer or answers without
\* data: a failure without exitCode.
DockerFallbackResult == RunResult("failure", <<>>, <<>>, "")

\* The result execute_action of a runtime returns for a terminal_run: the
\* local runtime returns the result of terminal_run, the docker runtime
\* normalizes the one the sandbox sent.
RuntimeRunResult(runtime, res) ==
  IF runtime = "docker" THEN normalizeTerminalRunResultShape(res) ELSE res

----------------------------------------------------------------------------
(* SpecRun: terminal_run calls, one after the other, on either runtime.     *)

MaxRunCalls == 3

Runtimes == {"local", "docker"}

RunCommands == {Undefined, "ls", "nohup python server.py"}

ExitCodes == {1, 2, 127}

NoRun == <<>>

Running(runtime, command) ==
  [stage |-> "running", runtime |-> runtime, command |-> command, elapsed |-> 0,
   atLimit |-> FALSE, supplied |-> FALSE, result |-> RunResult("", <<>>, <<>>, "")]

InitRun == MemoryEmpty /\ LoopIdle /\ calls = 0
           /\ inflight = <<>> /\ serialMessages = <<>> /\ serialPending = <<>>
           /\ disk = NoFile /\ probe = NoRun

RunUnchanged == UNCHANGED <<memVars, inflight, serialMessages, serialPending, disk, loopVars>>

\* The exec callback has run: terminal_run returns, and the runtime with it.
Returned(error, atLimit) ==
  probe' = [probe EXCEPT
              !.stage = "returned", !.atLimit = atLimit,
              !.supplied = (error = NoExecError \/ error.code.type = "number"),
              !.result = RuntimeRunResult(probe.runtime,
                                          terminalRunResult(runCommand(error)))]

\* execute_action is called with a terminal_run; a missing command and a
\* nohup command return without waiting for a child.
RunStart ==
  /\ IF probe = NoRun THEN TRUE ELSE probe.stage = "returned"
  /\ calls < MaxRunCalls
  /\ \E runtime \in Runtimes, command \in RunCommands :
       probe' = IF ~isNonEmptyString(command)
                THEN [Running(runtime, command) EXCEPT
                        !.stage = "returned",
                        !.result = RuntimeRunResult(runtime, MissingCommandResult)]
                ELSE IF command = "nohup python server.py"
                THEN [Running(runtime, command) EXCEPT
                        !.stage = "returned", !.supplied = TRUE,
                        !.result = RuntimeRunResult(runtime, NohupResult)]
                ELSE Running(runtime, command)
  /\ calls' = calls + 1
  /\ RunUnchanged

\* Time passes while the child runs, up to the timeout of exec.
RunTick ==
  /\ probe # NoRun /\ probe.stage = "running"
  /\ probe.elapsed < TimeoutTicks
  /\ probe' = [probe EXCEPT !.elapsed = @ + 1]
  /\ UNCHANGED calls
  /\ RunUnchanged

\* The child exits by itself, with status 0 or with another one.
RunExit ==
  /\ probe # NoRun /\ probe.stage = "running"
  /\ \/ Returned(NoExecError, FALSE)
     \/ \E c \in ExitCodes : Returned(ExecError(NumberCode(c), "", FALSE), FALSE)
  /\ UNCHANGED calls
  /\ RunUnchanged

\* A signal that exec did not send ends the child.
RunSignalled ==
  /\ probe # NoRun /\ probe.stage = "running"
  /\ \E s \in {"SIGTERM", "SIGKILL"} : Returned(ExecError(NullCode, s, FALSE), FALSE)
  /\ UNCHANGED calls
  /\ RunUnchanged

\* The shell cannot be started (the working directory does not exist).
RunSpawnFails ==
  /\ probe # NoRun /\ probe.stage = "running" /\ probe.elapsed = 0
  /\ Returned(ExecError(StringCode, "", FALSE), FALSE)
  /\ UNCHANGED calls
  /\ RunUnchanged

\* The child is still running at the timeout: exec kills it with SIGKILL.
RunTimeout ==
  /\ probe # NoRun /\ probe.stage = "running"
  /\ probe.elapsed >= TimeoutTicks
  /\ Returned(ExecError(NullCode, "SIGKILL", TRUE), TRUE)
  /\ UNCHANGED calls
  /\ RunUnchanged

\* The sandbox of the docker runtime does not answer, or answers without
\* data: _call_docker_action returns its fallback.
RunHttpFails ==
  /\ probe # NoRun /\ probe.stage = "running" /\ probe.runtime = "docker"
  /\ probe' = [probe EXCEPT !.stage = "returned", !.result = DockerFallbackResult]
  /\ UNCHANGED calls
  /\ RunUnchanged

NextRun ==
  \/ RunStart
  \/ RunTick
  \/ RunExit
  \/ RunSignalled
  \/ RunSpawnFails
  \/ RunTimeout
  \/ RunHttpFails

SpecRun == InitRun /\ [][NextRun]_vars

----------------------------------------------------------------------------
(* The file tools of the runtime (src/runtime/utils/tools.js).  A text is   *)
(* the sequence of its characters; line numbers and offsets are 0-based as  *)
(* in the code.                                                             *)

LF == "\n"

CR == "\r"

Blank == {" ", "\t", LF, CR}

slice(s, from, to) == SubSeq(s, from + 1, to)

\* String.prototype.trim().length > 0
isNonEmptyLine(s) == \E i \in 1..Len(s) : s[i] \notin Blank

RECURSIVE normalizeTextToLF(_)
normalizeTextToLF(s) ==
  IF s = <<>> THEN <<>>
  ELSE IF s[1] # CR THEN <<s[1]>> \o normalizeTextToLF(Tail(s))
  ELSE IF Len(s) > 1 /\ s[2] = LF THEN <<LF>> \o normalizeTextToLF(SubSeq(s, 3, Len(s)))
  ELSE <<LF>> \o normalizeTextToLF(Tail(s))

RECURSIVE stripLeadingNewlines(_)
stripLeadingNewlines(s) ==
  IF s # <<>> /\ s[1] = LF THEN stripLeadingNewlines(Tail(s)) ELSE s

RECURSIVE stripTrailingNewlines(_)
stripTrailingNewlines(s) ==
  IF s # <<>> /\ s[Len(s)] = LF THEN stripTrailingNewlines(SubSeq(s, 1, Len(s) - 1)) ELSE s

WithOneNewline(t) == IF Len(t) > 0 THEN t \o <<LF>> ELSE <<>>

normalizeSnippet(s) ==
  WithOneNewline(stripTrailingNewlines(stripLeadingNewlines(normalizeTextToLF(s))))

RECURSIVE rstrip(_)
rstrip(s) ==
  IF s # <<>> /\ s[Len(s)] \in {" ", "\t"} THEN rstrip(SubSeq(s, 1, Len(s) - 1)) ELSE s

FirstNewline(t) == CHOOSE i \in 1..Len(t) : t[i] = LF /\ \A j \in 1..(i - 1) : t[j] # LF

RECURSIVE splitLinesNoDelim(_)
splitLinesNoDelim(t) ==
  IF \A i \in 1..Len(t) : t[i] # LF THEN <<t>>
  ELSE <<SubSeq(t, 1, FirstNewline(t) - 1)>>
         \o splitLinesNoDelim(SubSeq(t, FirstNewline(t) + 1, Len(t)))

RECURSIVE OffsetsAfterNewlines(_, _)
OffsetsAfterNewlines(t, i) ==
  IF i > Len(t) THEN <<>>
  ELSE (IF t[i] = LF THEN <<i>> ELSE <<>>) \o OffsetsAfterNewlines(t, i + 1)

buildLineStartOffsets(textLF) == <<0>> \o OffsetsAfterNewlines(textLF, 1)

\* The line numbers, between startLineInclusive and endLineExclusive, at
\* which needleLines occurs in hayLines.
findAllSequenceMatches(hayLines, needleLines, startLineInclusive, endLineExclusive) ==
  IF needleLines = <<>> THEN {}
  ELSE {i \in Max(0, startLineInclusive)..
                ((IF endLineExclusive < Len(hayLines) THEN endLineExclusive ELSE Len(hayLines))
                   - Len(needleLines)) :
          \A k \in 1..Len(needleLines) : hayLines[i + k] = needleLines[k]}

RECURSIVE NonEmptyIdxsFrom(_, _)
NonEmptyIdxsFrom(blockLines, i) ==
  IF i >= Len(blockLines) THEN <<>>
  ELSE (IF isNonEmptyLine(blockLines[i + 1]) THEN <<i>> ELSE <<>>)
         \o NonEmptyIdxsFrom(blockLines, i + 1)

\* rstrip of the non-empty lines of the block; the other lines stay.
AnchorLines(blockLines) ==
  [i \in 1..Len(blockLines) |->
     IF isNonEmptyLine(blockLines[i]) THEN rstrip(blockLines[i]) ELSE blockLines[i]]

NoMatch(reason, needle) ==
  [ok |-> FALSE, reason |-> reason, startLine |-> -1, needleLines |-> needle]

UniqueMatch(matches, needle) ==
  [ok |-> TRUE, reason |-> "", startLine |-> CHOOSE m \in matches : TRUE, needleLines |-> needle]

StartNeedle(codeLines, codeNonEmptyIdxs, take) ==
  [t \in 1..take |-> codeLines[codeNonEmptyIdxs[t] + 1]]

EndNeedle(codeLines, codeNonEmptyIdxs, take) ==
  [t \in 1..take |-> codeLines[codeNonEmptyIdxs[Len(codeNonEmptyIdxs) - take + t] + 1]]

RECURSIVE StartMatchTaking(_, _, _, _, _)
StartMatchStep(fileLines, codeLines, codeNonEmptyIdxs, fileStartLine, take, needle, matches) ==
  IF Cardinality(matches) = 1 THEN UniqueMatch(matches, needle)
  ELSE IF matches = {} THEN NoMatch("start_not_found", needle)
  ELSE StartMatchTaking(fileLines, codeLines, codeNonEmptyIdxs, fileStartLine, take + 1)

StartMatchTaking(fileLines, codeLines, codeNonEmptyIdxs, fileStartLine, take) ==
  IF take > Len(codeNonEmptyIdxs)
  THEN NoMatch("start_ambiguous", <<codeLines[codeNonEmptyIdxs[1] + 1]>>)
  ELSE StartMatchStep(fileLines, codeLines, codeNonEmptyIdxs, fileStartLine, take,
         StartNeedle(codeLines, codeNonEmptyIdxs, take),
         findAllSequenceMatches(fileLines, StartNeedle(codeLines, codeNonEmptyIdxs, take),
                                fileStartLine, Len(fileLines)))

progressiveUniqueMatchFromStart(fileLines, codeLines, codeNonEmptyIdxs, fileStartLine) ==
  StartMatchTaking(fileLines, codeLines, codeNonEmptyIdxs, fileStartLine, 1)

RECURSIVE EndMatchTaking(_, _, _, _, _)
EndMatchStep(fileLines, codeLines, codeNonEmptyIdxs, fileStartLine, take, needle, matches) ==
  IF Cardinality(matches) = 1 THEN UniqueMatch(matches, needle)
  ELSE IF matches = {} THEN NoMatch("end_not_found", needle)
  ELSE EndMatchTaking(fileLines, codeLines, codeNonEmptyIdxs, fileStartLine, take + 1)

EndMatchTaking(fileLines, codeLines, codeNonEmptyIdxs, fileStartLine, take) ==
  IF take > Len(codeNonEmptyIdxs)
  THEN NoMatch("end_ambiguous", <<codeLines[codeNonEmptyIdxs[Len(codeNonEmptyIdxs)] + 1]>>)
  ELSE EndMatchStep(fileLines, codeLines, codeNonEmptyIdxs, fileStartLine, take,
         EndNeedle(codeLines, codeNonEmptyIdxs, take),
         findAllSequenceMatches(fileLines, EndNeedle(codeLines, codeNonEmptyIdxs, take),
                                fileStartLine, Len(fileLines)))

progressiveUniqueMatchFromEnd(fileLines, codeLines, codeNonEmptyIdxs, fileStartLine) ==
  EndMatchTaking(fileLines, codeLines, codeNonEmptyIdxs, fileStartLine, 1)

\* The token the guardrail of Python files looks for stands for itself.
InputCall == "input("

detectForbiddenInteractivePython(content) == \E i \in 1..Len(content) : content[i] = InputCall

\* What a file tool returns and what it leaves in the target file.
EditResult(status, keyid, file) == [status |-> status, keyid |-> keyid, file |-> file]

NoKeyid == ""

replaceEndOffset(lineStarts, endLastLine, fileLF) ==
  IF endLastLine + 2 <= Len(lineStarts) THEN lineStarts[endLastLine + 2] ELSE Len(fileLF)

\* replace_code_block once both anchors are resolved, without the test for
\* a block that changes nothing.
ReplaceResolvedAlways(fileText, fileLF, code_block, python, replaceStart, replaceEnd) ==
  IF python /\ detectForbiddenInteractivePython(
                 slice(fileLF, 0, replaceStart) \o normalizeSnippet(code_block)
                   \o slice(fileLF, replaceEnd, Len(fileLF)))
  THEN EditResult("failure", NoKeyid, fileText)
  ELSE EditResult("success", NoKeyid,
                  slice(fileLF, 0, replaceStart) \o normalizeSnippet(code_block)
                    \o slice(fileLF, replaceEnd, Len(fileLF)))

ReplaceResolved(fileText, fileLF, code_block, python, replaceStart, replaceEnd) ==
  IF normalizeSnippet(code_block) = normalizeSnippet(slice(fileLF, replaceStart, replaceEnd))
  THEN EditResult("failure", "replace_code_block_noop", fileText)
  ELSE IF python /\ detectForbiddenInteractivePython(
                      slice(fileLF, 0, replaceStart) \o normalizeSnippet(code_block)
                        \o slice(fileLF, replaceEnd, Len(fileLF)))
  THEN EditResult("failure", NoKeyid, fileText)
  ELSE EditResult("success", NoKeyid,
                  slice(fileLF, 0, replaceStart) \o normalizeSnippet(code_block)
                    \o slice(fileLF, replaceEnd, Len(fileLF)))

ReplaceAtEnd(fileText, fileLF, code_block, python, lineStarts, startLine, endMatch) ==
  IF ~endMatch.ok
  THEN EditResult("failure", "replace_code_block_anchor_not_found", fileText)
  ELSE ReplaceResolved(fileText, fileLF, code_block, python, lineStarts[startLine + 1],
         replaceEndOffset(lineStarts, endMatch.startLine + Len(endMatch.needleLines) - 1, fileLF))

ReplaceAtStart(fileText, fileLF, code_block, python, fileLines, blockLines, nonEmptyIdxs, startMatch) ==
  IF ~startMatch.ok
  THEN EditResult("failure", "replace_code_block_anchor_not_found", fileText)
  ELSE ReplaceAtEnd(fileText, fileLF, code_block, python, buildLineStartOffsets(fileLF),
         startMatch.startLine,
         progressiveUniqueMatchFromEnd(fileLines, blockLines, nonEmptyIdxs, startMatch.startLine))

ReplaceInLines(fileText, fileLF, code_block, python, fileLines, blockLines, nonEmptyIdxs) ==
  ReplaceAtStart(fileText, fileLF, code_block, python, fileLines, blockLines, nonEmptyIdxs,
    progressiveUniqueMatchFromStart(fileLines, blockLines, nonEmptyIdxs, 0))

\* file is <<>> when the target cannot be read and <<text>> otherwise.
replace_code_block(file, code_block, python) ==
  IF ~isNonEmptyLine(code_block) THEN EditResult("failure", NoKeyid, file)
  ELSE IF file = <<>> THEN EditResult("failure", NoKeyid, file)
  ELSE [ReplaceInLines(file[1], normalizeTextToLF(file[1]), code_block, python,
          splitLinesNoDelim(normalizeTextToLF(file[1])),
          AnchorLines(splitLinesNoDelim(normalizeTextToLF(code_block))),
          NonEmptyIdxsFrom(splitLinesNoDelim(normalizeTextToLF(code_block)), 0))
        EXCEPT !.file = <<@>>]

----------------------------------------------------------------------------
(* SpecReplace: one replace_code_block call on a small file.                *)

MaxFileLines == 3

MaxBlockLines == 2

LineForms == {<<"a">>, <<"b">>, <<"a", " ">>, <<>>}

BlockLineForms == LineForms \cup {<<InputCall>>}

Eols == {<<LF>>, <<CR, LF>>}

RECURSIVE joinLines(_, _)
joinLines(lines, eol) ==
  IF Len(lines) = 0 THEN <<>>
  ELSE IF Len(lines) = 1 THEN lines[1]
  ELSE lines[1] \o eol \o joinLines(Tail(lines), eol)

LinesUpTo(forms, n) == UNION {[1..k -> forms] : k \in 1..n}

FileTexts == {joinLines(l, e) : l \in LinesUpTo(LineForms, MaxFileLines), e \in Eols}

CodeBlocks == {joinLines(l, <<LF>>) : l \in LinesUpTo(BlockLineForms, MaxBlockLines)}

NoCall == <<>>

ReplaceCall(file, code_block, python) ==
  [stage |-> "called", tool |-> "replace_code_block", file |-> file,
   code_block |-> code_block, python |-> python,
   result |-> EditResult("", NoKeyid, <<>>)]

InitReplace ==
  /\ MemoryEmpty /\ LoopIdle /\ calls = 0
  /\ inflight = <<>> /\ serialMessages = <<>> /\ serialPending = <<>>
  /\ disk = NoFile
  /\ \E file \in {<<>>} \cup {<<t>> : t \in FileTexts}, code_block \in CodeBlocks,
        python \in BOOLEAN :
       probe = ReplaceCall(file, code_block, python)

\* The runtime runs the call issued at Init and returns its result.
ReplaceReturns ==
  /\ probe # NoCall /\ probe.stage = "called"
  /\ probe' = [probe EXCEPT
                 !.stage = "returned",
                 !.result = replace_code_block(probe.file, probe.code_block, probe.python)]
  /\ UNCHANGED <<memVars, inflight, serialMessages, serialPending, disk, calls, loopVars>>

NextReplace == ReplaceReturns

SpecReplace == InitReplace /\ [][NextReplace]_vars

----------------------------------------------------------------------------
(* The XML of one action, token by token: what serializeActionToXml writes  *)
(* (agent/code-act/code-act.js) and what parseXML and resolveActions read   *)
(* (xml/resolve.xml.optimize.js, runtime/utils/tools.js).  A text is a      *)
(* sequence of tokens; a parameter is <<>> when absent and <<text>> when    *)
(* present.  The texts of the model hold no "]" and no literal entity.      *)

Ch(c) == [k |-> "char", v |-> c]

Entity(e) == [k |-> "entity", v |-> e]

Tag(name) == [k |-> "open", v |-> name]

EndTag(name) == [k |-> "close", v |-> name]

CDataOpen == [k |-> "cdata", v |-> "<![CDATA["]

CDataClose == [k |-> "cdata", v |-> "]]>"]

Fields ==
  {"status", "message", "path", "content", "diff", "code_block", "command", "args",
   "cwd", "url", "query", "topic", "num_results", "question", "name", "arguments",
   "mode", "reason", "tasks", "comments", "conversation_id", "file_path", "file_name"}

NoXmlParams == [f \in Fields |-> <<>>]

IsBlankToken(t) == t.k = "char" /\ t.v \in Blank

RECURSIVE trimStart(_)
trimStart(s) == IF s # <<>> /\ IsBlankToken(s[1]) THEN trimStart(Tail(s)) ELSE s

RECURSIVE trimEnd(_)
trimEnd(s) ==
  IF s # <<>> /\ IsBlankToken(s[Len(s)]) THEN trimEnd(SubSeq(s, 1, Len(s) - 1)) ELSE s

trim(s) == trimEnd(trimStart(s))

\* p.f || "" for a parameter of an action
TextOr(p) == IF p = <<>> THEN <<>> ELSE p[1]

EscapeToken(t) ==
  IF t = Ch("&") THEN Entity("&amp;")
  ELSE IF t = Ch("<") THEN Entity("&lt;")
  ELSE IF t = Ch(">") THEN Entity("&gt;")
  ELSE t

\* asTrimmedString keeps a string as it is
xmlEscapeText(s) == [i \in 1..Len(s) |-> EscapeToken(s[i])]

wrapCData(s) == <<CDataOpen>> \o s \o <<CDataClose>>

\* unwrapCDataBestEffort(args).trim() of an args that is a string
coerceTerminalArgsToShellString(args) == trim(args)

Elem(name, body) == <<Tag(name)>> \o body \o <<EndTag(name)>>

\* `<f>escaped</f>` when the parameter is present, nothing otherwise
OptEscaped(name, p) == IF p = <<>> THEN <<>> ELSE Elem(name, xmlEscapeText(p[1]))

UnknownTypeText == <<Ch("Invalid tool call: unknown action type")>>

\* serializeActionToXml of an unknown type, and so of patch_code
serializeUnknown(action) ==
  Elem("evaluation", Elem("status", <<Ch("failure")>>)
                       \o Elem("comments", wrapCData(UnknownTypeText)))

serializeTool(action, type, p) ==
  IF type = "terminal_run"
  THEN Elem(type, Elem("command", xmlEscapeText(TextOr(p.command)))
                    \o (IF p.args = <<>> THEN <<>>
                        ELSE Elem("args", xmlEscapeText(coerceTerminalArgsToShellString(p.args[1]))))
                    \o OptEscaped("cwd", p.cwd))
  ELSE IF type = "write_code"
  THEN Elem(type, Elem("path", xmlEscapeText(TextOr(p.path)))
                    \o Elem("content", wrapCData(TextOr(p.content))))
  ELSE IF type = "replace_code_block"
  THEN Elem(type, Elem("path", xmlEscapeText(TextOr(p.path)))
                    \o Elem("code_block", wrapCData(TextOr(p.code_block))))
  ELSE IF type = "read_file" THEN Elem(type, Elem("path", xmlEscapeText(TextOr(p.path))))
  ELSE IF type = "read_url" THEN Elem(type, Elem("url", xmlEscapeText(TextOr(p.url))))
  ELSE IF type = "web_search"
  THEN Elem(type, OptEscaped("topic", p.topic)
                    \o Elem("query", xmlEscapeText(TextOr(p.query)))
                    \o OptEscaped("num_results", p.num_results))
  ELSE IF type = "mcp_tool"
  THEN Elem(type, Elem("name", xmlEscapeText(TextOr(p.name)))
                    \o (IF p.arguments = <<>> THEN <<>>
                        ELSE Elem("arguments", wrapCData(p.arguments[1]))))
  ELSE serializeUnknown(action)

serializeControl(action, type, p) ==
  IF type = "revise_plan"
  THEN Elem(type, Elem("mode", xmlEscapeText(TextOr(p.mode)))
                    \o Elem("reason", xmlEscapeText(TextOr(p.reason)))
                    \o Elem("tasks", wrapCData(TextOr(p.tasks))))
  ELSE IF type = "finish"
  THEN Elem(type, OptEscaped("status", p.status)
                    \o Elem("message", wrapCData(TextOr(p.message))))
  ELSE IF type = "evaluation"
  THEN Elem(type, Elem("status", xmlEscapeText(TextOr(p.status)))
                    \o Elem("comments", wrapCData(TextOr(p.comments))))
  ELSE IF type = "information"
  THEN Elem(type, Elem("message", wrapCData(TextOr(p.message))))
  ELSE IF type = "patch_complete"
  THEN Elem(type, IF TextOr(p.message) # <<>>
                  THEN Elem("message", wrapCData(p.message[1])) ELSE <<>>)
  ELSE serializeTool(action, type, p)

serializeActionToXmlTokens(action) == serializeControl(action, action.type, action.params)

\* StreamingXMLParser._stripCDATA: one outer wrapper of the trimmed text
StripOuterCDATA(s) ==
  IF Len(trim(s)) >= 2 /\ trim(s)[1] = CDataOpen /\ trim(s)[Len(trim(s))] = CDataClose
  THEN SubSeq(trim(s), 2, Len(trim(s)) - 1)
  ELSE s

\* stripCDATA of parseXML: the texts of the CDATA sections of a text that
\* holds some, the text itself otherwise
RECURSIVE CDataSections(_, _)
CDataSections(s, inside) ==
  IF s = <<>> THEN <<>>
  ELSE IF s[1] = CDataOpen /\ ~inside THEN CDataSections(Tail(s), TRUE)
  ELSE IF s[1] = CDataClose /\ inside THEN CDataSections(Tail(s), FALSE)
  ELSE (IF inside THEN <<s[1]>> ELSE <<>>) \o CDataSections(Tail(s), inside)

stripCDATA(text) ==
  IF CDataSections(trim(text), FALSE) # <<>> THEN CDataSections(trim(text), FALSE) ELSE text

FirstEndTag(xml, name, pos) ==
  IF \E i \in pos..Len(xml) : xml[i] = EndTag(name)
  THEN CHOOSE i \in pos..Len(xml) :
         xml[i] = EndTag(name) /\ \A j \in pos..(i - 1) : xml[j] # EndTag(name)
  ELSE 0

HasAction(found, type) == \E i \in 1..Len(found) : found[i].type = type

\* this.result[tagName] = this.result[tagName] || {}
WithAction(found, type) ==
  IF HasAction(found, type) THEN found
  ELSE Append(found, [type |-> type, params |-> NoXmlParams])

WithField(found, type, field, text) ==
  [i \in 1..Len(found) |->
     IF found[i].type = type
     THEN [found[i] EXCEPT !.params[field] = <<text>>] ELSE found[i]]

\* StreamingXMLParser.parse over the whole text: currentAction is "" outside
\* an action; a field runs to the first closing tag of its name.
RECURSIVE parseFrom(_, _, _, _)
parseField(xml, pos, currentAction, found, closePos) ==
  IF closePos = 0 THEN found
  ELSE parseFrom(xml, closePos + 1, currentAction,
                 WithField(found, currentAction, xml[pos].v,
                           StripOuterCDATA(SubSeq(xml, pos + 1, closePos - 1))))

parseFrom(xml, pos, currentAction, found) ==
  IF pos > Len(xml) THEN found
  ELSE IF currentAction = ""
  THEN IF xml[pos].k = "open" /\ xml[pos].v \in DOMAIN defaultActions
       THEN parseFrom(xml, pos + 1, xml[pos].v, WithAction(found, xml[pos].v))
       ELSE parseFrom(xml, pos + 1, "", found)
  ELSE IF xml[pos] = EndTag(currentAction) THEN parseFrom(xml, pos + 1, "", found)
  ELSE IF xml[pos].k = "open" /\ xml[pos].v \in defaultActions[currentAction]
  THEN parseField(xml, pos, currentAction, found, FirstEndTag(xml, xml[pos].v, pos + 1))
  ELSE parseFrom(xml, pos + 1, currentAction, found)

PayloadField ==
  [write_code |-> "content", terminal_run |-> "args", patch_code |-> "diff",
   replace_code_block |-> "code_block", patch_complete |-> "message",
   information |-> "message"]

StripPayload(a) ==
  IF a.type \in DOMAIN PayloadField /\ TextOr(a.params[PayloadField[a.type]]) # <<>>
  THEN [a EXCEPT !.params[PayloadField[a.type]] = <<stripCDATA(@[1])>>]
  ELSE a

parseXML(xml) == [i \in 1..Len(parseFrom(xml, 1, "", <<>>)) |->
                    StripPayload(parseFrom(xml, 1, "", <<>>)[i])]

deepTrimStrings(params) ==
  [f \in Fields |-> IF params[f] = <<>> THEN <<>> ELSE <<trim(params[f][1])>>]

FirstBlank(s) ==
  IF \E i \in 1..Len(s) : IsBlankToken(s[i])
  THEN CHOOSE i \in 1..Len(s) : IsBlankToken(s[i]) /\ \A j \in 1..(i - 1) : ~IsBlankToken(s[j])
  ELSE 0

RECURSIVE squeezeBlanks(_)
\* parts.slice(1).join(' ') of a trimmed text
squeezeBlanks(s) ==
  IF s = <<>> THEN <<>>
  ELSE IF IsBlankToken(s[1])
  THEN <<Ch(" ")>> \o squeezeBlanks(trimStart(s))
  ELSE <<s[1]>> \o squeezeBlanks(Tail(s))

\* terminal_run: a command of several words is split into command and args
splitCommand(trimmed) ==
  IF trimmed.command = <<>> \/ FirstBlank(trimmed.command[1]) = 0 THEN trimmed
  ELSE [trimmed EXCEPT
          !.command = <<SubSeq(@[1], 1, FirstBlank(@[1]) - 1)>>,
          !.args = IF trim(TextOr(@)) # <<>> THEN @
                   ELSE <<squeezeBlanks(trimStart(
                            SubSeq(trimmed.command[1], FirstBlank(trimmed.command[1]),
                                   Len(trimmed.command[1]))))>>]

coerceTerminalArgsToString(args) == trim(stripCDATA(trim(args)))

coerceArgs(p) ==
  IF p.args = <<>> THEN p ELSE [p EXCEPT !.args = <<coerceTerminalArgsToString(@[1])>>]

sanitizeToolParams(toolType, params) ==
  IF toolType \in {"write_code", "write_file"}
  THEN [deepTrimStrings(params) EXCEPT !.content = params.content]
  ELSE IF toolType = "replace_code_block"
  THEN [deepTrimStrings(params) EXCEPT !.code_block = params.code_block]
  ELSE IF toolType = "terminal_run"
  THEN coerceArgs(splitCommand(deepTrimStrings(params)))
  ELSE deepTrimStrings(params)

isStructurallyInvalidXmlAction(a) ==
  IF a.type = "terminal_run" THEN a.params.path # <<>> \/ a.params.content # <<>>
  ELSE IF a.type \in {"write_code", "write_file"} THEN a.params.command # <<>>
  ELSE FALSE

SanitizedActions(resolved) ==
  [i \in 1..Len(resolved) |->
     [resolved[i] EXCEPT !.params = sanitizeToolParams(resolved[i].type, @)]]

\* resolveActions on the text of an XML
resolveXmlActions(xml) ==
  IF \E i \in 1..Len(SanitizedActions(parseXML(xml))) :
       isStructurallyInvalidXmlAction(SanitizedActions(parseXML(xml))[i])
  THEN <<>>
  ELSE SanitizedActions(parseXML(xml))

----------------------------------------------------------------------------
(* SpecXml: one canonical action is serialized and parsed back.             *)

Word == <<Ch("l"), Ch("s")>>

Phrase == <<Ch("a"), Ch(" "), Ch("b")>>

Texts == {Word, Phrase}

Given(f, text) == [NoXmlParams EXCEPT ![f] = <<text>>]

Merge(p, q) == [f \in Fields |-> IF q[f] # <<>> THEN q[f] ELSE p[f]]

\* the parameters with both fields f and g present
Pairs(f, S, g, T) == {Merge(Given(f, s), Given(g, t)) : s \in S, t \in T}

\* as P, with the optional field f absent or present
Optional(P, f, S) == P \cup {Merge(p, Given(f, s)) : p \in P, s \in S}

ActionsOf(type, P) == {[type |-> type, params |-> p] : p \in P}

CanonicalActions ==
  ActionsOf("finish", Pairs("status", {<<Ch("SUCCESS")>>, <<Ch("FAILED")>>}, "message", Texts))
  \cup ActionsOf("write_code", Pairs("path", {Word}, "content", Texts))
  \cup ActionsOf("patch_code", Pairs("path", {Word}, "diff", Texts))
  \cup ActionsOf("replace_code_block", Pairs("path", {Word}, "code_block", Texts))
  \cup ActionsOf("read_file", {Given("path", Word)})
  \cup ActionsOf("terminal_run",
         Optional(Optional({Given("command", Word)}, "args", Texts), "cwd", {Word}))
  \cup ActionsOf("web_search",
         Optional(Optional({Given("query", t) : t \in Texts}, "num_results", {<<Ch("5")>>}),
                  "topic", {Word}))
  \cup ActionsOf("read_url", {Given("url", Word)})
  \cup ActionsOf("browser", {Given("question", t) : t \in Texts})
  \cup ActionsOf("revise_plan",
         {Merge(p, Given("tasks", t)) : p \in Pairs("mode", {Word}, "reason", Texts), t \in Texts})
  \cup ActionsOf("evaluation",
         Pairs("status", {<<Ch("success")>>, <<Ch("failure")>>}, "comments", Texts))
  \cup ActionsOf("information", {Given("message", t) : t \in Texts})
  \cup ActionsOf("patch_complete", Optional({NoXmlParams}, "message", Texts))
  \cup ActionsOf("mcp_tool", {Given("name", Word)})

XmlCall(action) ==
  [stage |-> "called", tool |-> "serializeActionToXml", action |-> action,
   xml |-> <<>>, result |-> <<>>]

InitXml ==
  /\ MemoryEmpty /\ LoopIdle /\ calls = 0
  /\ inflight = <<>> /\ serialMessages = <<>> /\ serialPending = <<>>
  /\ disk = NoFile
  /\ \E action \in CanonicalActions : probe = XmlCall(action)

XmlUnchanged ==
  UNCHANGED <<memVars, inflight, serialMessages, serialPending, disk, calls, loopVars>>

\* The loop serializes the action for the memory (code-act.js:960).
XmlSerialize ==
  /\ probe # NoCall /\ probe.stage = "called"
  /\ probe' = [probe EXCEPT !.stage = "serialized",
                            !.xml = serializeActionToXmlTokens(probe.action)]
  /\ XmlUnchanged

\* The text is parsed back.
XmlParse ==
  /\ probe # NoCall /\ probe.stage = "serialized"
  /\ probe' = [probe EXCEPT !.stage = "returned", !.result = resolveXmlActions(probe.xml)]
  /\ XmlUnchanged

NextXml ==
  \/ XmlSerialize
  \/ XmlParse

SpecXml == InitXml /\ [][NextXml]_vars

----------------------------------------------------------------------------
(* Unified diffs (src/runtime/utils/tools.js).  An LF-normalized text is    *)
(* the sequence of its lines as split('\n') gives them: never empty, and    *)
(* ending with the line "" when the text ends with a newline.  A diff is    *)
(* the sequence of its lines; positions in the ops and in the file are      *)
(* 0-based as in the code.                                                  *)

CONTEXT_LINES == 3

FUZZY_WINDOW == 200

DiffOp(t, line) == [t |-> t, line |-> line]

\* follow diagonal (equal lines)
RECURSIVE Snake(_, _, _, _)
Snake(a, b, x, y) ==
  IF x < Len(a) /\ y < Len(b) /\ a[x + 1] = b[y + 1] THEN Snake(a, b, x + 1, y + 1) ELSE x

\* k === -d || (k !== d && v[k - 1] < v[k + 1]): the path comes from above
FromDown(v, d, k) == IF k = -d THEN TRUE ELSE IF k = d THEN FALSE ELSE v[k - 1] < v[k + 1]

RECURSIVE BackRemaining(_, _, _, _, _)
BackRemaining(a, b, bx, by, ops) ==
  IF bx > 0 /\ by > 0
  THEN BackRemaining(a, b, bx - 1, by - 1, <<DiffOp("=", a[bx])>> \o ops)
  ELSE IF bx > 0 THEN BackRemaining(a, b, bx - 1, by, <<DiffOp("-", a[bx])>> \o ops)
  ELSE IF by > 0 THEN BackRemaining(a, b, bx, by - 1, <<DiffOp("+", b[by])>> \o ops)
  ELSE ops

\* the number of steps of `while (bx > prevX && by > prevY)`
DiagonalSteps(bx, by, prevX, prevY) ==
  IF bx > prevX /\ by > prevY
  THEN (IF bx - prevX < by - prevY THEN bx - prevX ELSE by - prevY)
  ELSE 0

RECURSIVE BackStep(_, _, _, _, _, _, _)
\* the edit step, at (bx, by) after the diagonal
BackEdit(a, b, bd, bx, by, trace, ops, prevX) ==
  IF bx = prevX
  THEN BackStep(a, b, bd - 1, bx, by - 1, trace, <<DiffOp("+", b[by])>> \o ops)
  ELSE BackStep(a, b, bd - 1, bx - 1, by, trace, <<DiffOp("-", a[bx])>> \o ops)

BackDiagonal(a, b, bd, bx, by, trace, ops, prevX, n) ==
  BackEdit(a, b, bd, bx - n, by - n, trace,
           [i \in 1..n |-> DiffOp("=", a[bx - n + i])] \o ops, prevX)

BackFrom(a, b, bd, bx, by, trace, ops, prevK) ==
  BackDiagonal(a, b, bd, bx, by, trace, ops, trace[bd + 1][prevK],
               DiagonalSteps(bx, by, trace[bd + 1][prevK], trace[bd + 1][prevK] - prevK))

\* backtrack through the snapshots; ops is in forward order
BackStep(a, b, bd, bx, by, trace, ops) ==
  IF bd = 0 THEN BackRemaining(a, b, bx, by, ops)
  ELSE BackFrom(a, b, bd, bx, by, trace, ops,
                IF FromDown(trace[bd + 1], bd, bx - by) THEN bx - by + 1 ELSE bx - by - 1)

RECURSIVE MyersD(_, _, _, _, _)
RECURSIVE MyersK(_, _, _, _, _, _)
MyersAt(a, b, d, k, v, trace, x) ==
  IF x >= Len(a) /\ x - k >= Len(b) THEN BackStep(a, b, d, Len(a), Len(b), trace, <<>>)
  ELSE MyersK(a, b, d, k + 2, [v EXCEPT ![k] = x], trace)

MyersK(a, b, d, k, v, trace) ==
  IF k > d THEN MyersD(a, b, d + 1, v, trace)
  ELSE MyersAt(a, b, d, k, v, trace,
               IF FromDown(v, d, k) THEN Snake(a, b, v[k + 1], v[k + 1] - k)
               ELSE Snake(a, b, v[k - 1] + 1, v[k - 1] + 1 - k))

MyersD(a, b, d, v, trace) ==
  IF d > Len(a) + Len(b)
  THEN [i \in 1..(Len(a) + Len(b)) |->
          IF i <= Len(a) THEN DiffOp("-", a[i]) ELSE DiffOp("+", b[i - Len(a)])]
  ELSE MyersK(a, b, d, -d, v, Append(trace, v))

\* v is indexed by the diagonal k itself (the code adds the offset N + M)
myersDiffOps(aLines, bLines) ==
  IF Len(aLines) = 0 THEN [i \in 1..Len(bLines) |-> DiffOp("+", bLines[i])]
  ELSE IF Len(bLines) = 0 THEN [i \in 1..Len(aLines) |-> DiffOp("-", aLines[i])]
  ELSE MyersD(aLines, bLines, 0,
              [k \in (0 - Len(aLines) - Len(bLines) - 1)..(Len(aLines) + Len(bLines) + 1) |-> 0],
              <<>>)

\* A line of a diff: a file header ("---", "+++"), a hunk header ("@@"), a
\* line of a hunk (" ", "-", "+"), or an empty line ("").
DiffLine(t, line) ==
  [t |-> t, line |-> line, oldStart |-> 0, oldCount |-> 0, newStart |-> 0, newCount |-> 0]

HunkHeader(oldStart, oldCount, newStart, newCount) ==
  [t |-> "@@", line |-> "", oldStart |-> oldStart, oldCount |-> oldCount,
   newStart |-> newStart, newCount |-> newCount]

NewHunk(oldStart, newStart) ==
  [oldStart |-> oldStart, newStart |-> newStart, oldCount |-> 0, newCount |-> 0, body |-> <<>>]

\* hunk.body.push(` ${line}`); hunk.oldCount++; hunk.newCount++ for each line
WithContext(hunk, contextLines) ==
  [hunk EXCEPT !.body = @ \o [i \in 1..Len(contextLines) |-> DiffLine(" ", contextLines[i])],
               !.oldCount = @ + Len(contextLines), !.newCount = @ + Len(contextLines)]

LastLines(s, n) == SubSeq(s, Max(1, Len(s) - n + 1), Len(s))

flushHunk(lines, hunk) ==
  lines \o <<HunkHeader(hunk.oldStart, hunk.oldCount, hunk.newStart,
                        hunk.newCount)>> \o hunk.body

BuildState(ops) ==
  [i |-> 1, pendingEquals |-> <<>>, hunk |-> <<>>, postContextRemaining |-> 0,
   oldLineNo |-> 1, newLineNo |-> 1,
   lines |-> <<DiffLine("---", "file"), DiffLine("+++", "file")>>]

\* pendingEquals keeps its lines: only the change that follows clears it
startHunkIfNeeded(st, ctx) ==
  IF st.hunk # <<>> THEN st
  ELSE [st EXCEPT
          !.hunk = <<WithContext(
                       NewHunk(st.oldLineNo - Len(LastLines(st.pendingEquals, ctx)),
                               st.newLineNo - Len(LastLines(st.pendingEquals, ctx))),
                       LastLines(st.pendingEquals, ctx))>>,
          !.postContextRemaining = 0]

emitPendingEquals(st) ==
  IF st.pendingEquals = <<>> THEN st
  ELSE [st EXCEPT !.hunk = <<WithContext(@[1], st.pendingEquals)>>, !.pendingEquals = <<>>]

applyChange(st, op, ctx) ==
  IF op.t = "-"
  THEN [st EXCEPT !.hunk[1].body = Append(@, DiffLine("-", op.line)),
                  !.hunk[1].oldCount = @ + 1, !.oldLineNo = @ + 1,
                  !.postContextRemaining = ctx, !.i = @ + 1]
  ELSE [st EXCEPT !.hunk[1].body = Append(@, DiffLine("+", op.line)),
                  !.hunk[1].newCount = @ + 1, !.newLineNo = @ + 1,
                  !.postContextRemaining = ctx, !.i = @ + 1]

keepEqual(st, op, ctx) ==
  IF st.hunk # <<>> /\ st.postContextRemaining > 0
  THEN [st EXCEPT !.hunk = <<WithContext(@[1], <<op.line>>)>>,
                  !.postContextRemaining = @ - 1,
                  !.oldLineNo = @ + 1, !.newLineNo = @ + 1]
  ELSE [st EXCEPT !.pendingEquals = LastLines(Append(@, op.line), ctx),
                  !.oldLineNo = @ + 1, !.newLineNo = @ + 1]

\* after an equal line: the hunk ends when its post-context is complete and
\* no change follows at once
endHunkIfPossible(st, ops) ==
  IF st.hunk # <<>> /\ st.postContextRemaining = 0
     /\ (IF st.i = Len(ops) THEN TRUE ELSE ops[st.i + 1].t = "=")
  THEN [st EXCEPT !.lines = flushHunk(@, st.hunk[1]), !.hunk = <<>>, !.i = @ + 1]
  ELSE [st EXCEPT !.i = @ + 1]

closeLastHunk(st, ctx) ==
  IF st.hunk = <<>> THEN st.lines
  ELSE flushHunk(st.lines, WithContext(st.hunk[1], SubSeq(st.pendingEquals, 1,
                   IF Len(st.pendingEquals) < ctx THEN Len(st.pendingEquals) ELSE ctx)))

RECURSIVE buildHunks(_, _, _)
buildHunks(st, ops, ctx) ==
  IF st.i > Len(ops) THEN closeLastHunk(st, ctx)
  ELSE IF ops[st.i].t = "="
  THEN buildHunks(endHunkIfPossible(keepEqual(st, ops[st.i], ctx), ops), ops, ctx)
  ELSE buildHunks(applyChange(emitPendingEquals(startHunkIfNeeded(st, ctx)), ops[st.i], ctx),
                  ops, ctx)

\* The diff as its lines; <<>> is the empty text.
buildUnifiedDiffFromOps(ops, contextLines) ==
  IF \A i \in 1..Len(ops) : ops[i].t = "=" THEN <<>>
  ELSE buildHunks(BuildState(ops), ops, contextLines)

generateUnifiedDiff(oldLines, newLines) ==
  IF oldLines = newLines THEN <<>>
  ELSE buildUnifiedDiffFromOps(myersDiffOps(oldLines, newLines), CONTEXT_LINES)

\* ''.split('\n') is one empty line
diffLinesOf(diff) == IF diff = <<>> THEN <<DiffLine("", "")>> ELSE diff

Thrown(message) == [ok |-> FALSE, out |-> <<>>, error |-> message]

Patched(out) == [ok |-> TRUE, out |-> out, error |-> ""]

\* the lines of out.join('\n'), read as a text
TextLines(out) == IF out = <<>> THEN <<"">> ELSE out

RECURSIVE buildHunkNeedle(_)
buildHunkNeedle(hunkLines) ==
  IF hunkLines = <<>> THEN <<>>
  ELSE (IF hunkLines[1].t \in {" ", "-"} THEN <<hunkLines[1].line>> ELSE <<>>)
         \o buildHunkNeedle(Tail(hunkLines))

findAllMatches(haystackLines, needleLines, startIdx, endIdx) ==
  findAllSequenceMatches(haystackLines, needleLines, startIdx, endIdx)

NoAnchor(reason) == [ok |-> FALSE, index |-> -1, mode |-> reason]

Anchor(matches, mode) == [ok |-> TRUE, index |-> CHOOSE m \in matches : TRUE, mode |-> mode]

anchorIn(near, all) ==
  IF Cardinality(near) = 1 THEN Anchor(near, "near")
  ELSE IF Cardinality(near) > 1 THEN NoAnchor("ambiguous near")
  ELSE IF Cardinality(all) = 1 THEN Anchor(all, "global")
  ELSE IF Cardinality(all) > 1 THEN NoAnchor("ambiguous")
  ELSE NoAnchor("no match")

chooseFuzzyAnchor(originalLines, declaredIndex0, needle) ==
  IF Len(needle) < 2 THEN NoAnchor("insufficient")
  ELSE anchorIn(findAllMatches(originalLines, needle, declaredIndex0 - FUZZY_WINDOW,
                               declaredIndex0 + FUZZY_WINDOW + Len(needle)),
                findAllMatches(originalLines, needle, 0, Len(originalLines)))

\* safeLine(originalLines[i]): a line past the end reads as ""
safeLine(originalLines, i) == IF i < Len(originalLines) THEN originalLines[i + 1] ELSE ""

\* Quick strict check: the first original-side line at the declared position
strictOk(originalLines, declaredSrcIndex, needlePreview) ==
  Len(needlePreview) = 0 \/ safeLine(originalLines, declaredSrcIndex) = needlePreview[1]

NextHunkHeader(diffLines, i) ==
  IF \E j \in i..Len(diffLines) : diffLines[j].t = "@@"
  THEN CHOOSE j \in i..Len(diffLines) :
         diffLines[j].t = "@@" /\ \A h \in i..(j - 1) : diffLines[h].t # "@@"
  ELSE Len(diffLines) + 1

\* The state of the application: the lines written, the position in the
\* file and, for each hunk applied, where it was applied.
ApplyState == [out |-> <<>>, srcIndex |-> 0, applied |-> <<>>, error |-> ""]

copyUpTo(st, originalLines, targetSrcIndex) ==
  IF st.srcIndex < targetSrcIndex /\ st.srcIndex < Len(originalLines)
  THEN [st EXCEPT
          !.out = @ \o SubSeq(originalLines, st.srcIndex + 1,
                              IF targetSrcIndex < Len(originalLines) THEN targetSrcIndex
                              ELSE Len(originalLines)),
          !.srcIndex = IF targetSrcIndex < Len(originalLines) THEN targetSrcIndex
                       ELSE Len(originalLines),
          !.applied = Append(@, IF targetSrcIndex < Len(originalLines) THEN targetSrcIndex
                                ELSE Len(originalLines))]
  ELSE [st EXCEPT !.applied = Append(@, st.srcIndex)]

RECURSIVE applyHunkLines(_, _, _)
applyHunkLines(st, originalLines, hunkLines) ==
  IF hunkLines = <<>> \/ st.error # "" THEN st
  ELSE IF hunkLines[1].t = "\\" THEN applyHunkLines(st, originalLines, Tail(hunkLines))
  ELSE IF hunkLines[1].t = " "
  THEN IF safeLine(originalLines, st.srcIndex) # hunkLines[1].line
       THEN [st EXCEPT !.error = "Patch context mismatch"]
       ELSE applyHunkLines([st EXCEPT !.out = Append(@, hunkLines[1].line),
                                      !.srcIndex = @ + 1],
                           originalLines, Tail(hunkLines))
  ELSE IF hunkLines[1].t = "-"
  THEN IF safeLine(originalLines, st.srcIndex) # hunkLines[1].line
       THEN [st EXCEPT !.error = "Patch deletion mismatch"]
       ELSE applyHunkLines([st EXCEPT !.srcIndex = @ + 1], originalLines, Tail(hunkLines))
  ELSE IF hunkLines[1].t = "+"
  THEN applyHunkLines([st EXCEPT !.out = Append(@, hunkLines[1].line)],
                      originalLines, Tail(hunkLines))
  ELSE [st EXCEPT !.error = "Unexpected diff line inside hunk"]

applyHunkAt(st, originalLines, hunkLines, chosen) ==
  IF ~chosen.ok THEN [st EXCEPT !.error = "Patch context mismatch: fuzzy fallback failed"]
  ELSE applyHunkLines(copyUpTo(st, originalLines, chosen.index), originalLines, hunkLines)

applyHunk(st, originalLines, hunkLines, declaredSrcIndex, needle) ==
  applyHunkAt(st, originalLines, hunkLines,
    IF strictOk(originalLines, declaredSrcIndex, needle)
    THEN [ok |-> TRUE, index |-> declaredSrcIndex, mode |-> "declared"]
    ELSE chooseFuzzyAnchor(originalLines, Max(st.srcIndex, declaredSrcIndex), needle))

RECURSIVE applyHunksFrom(_, _, _, _)
applyHunksFrom(st, originalLines, diffLines, i) ==
  IF st.error # "" \/ i > Len(diffLines) THEN st
  ELSE applyHunksFrom(
         applyHunk(st, originalLines,
                   SubSeq(diffLines, i + 1, NextHunkHeader(diffLines, i + 1) - 1),
                   Max(0, diffLines[i].oldStart - 1),
                   buildHunkNeedle(SubSeq(diffLines, i + 1,
                                          NextHunkHeader(diffLines, i + 1) - 1))),
         originalLines, diffLines, NextHunkHeader(diffLines, i + 1))

\* The application with the rest of the file copied, when nothing threw.
finishApply(st, originalLines) ==
  IF st.error # "" THEN st
  ELSE [st EXCEPT !.out = @ \o SubSeq(originalLines, st.srcIndex + 1, Len(originalLines))]

applyTrace(originalLines, diffLines) ==
  IF \A i \in 1..Len(diffLines) : diffLines[i].t # "@@"
  THEN [ApplyState EXCEPT !.error = "Invalid unified diff: no hunks found"]
  ELSE finishApply(applyHunksFrom(ApplyState, originalLines, diffLines,
                                  NextHunkHeader(diffLines, 1)),
                   originalLines)

applyUnifiedDiff(originalLines, diff) ==
  IF applyTrace(originalLines, diffLinesOf(diff)).error # ""
  THEN Thrown(applyTrace(originalLines, diffLinesOf(diff)).error)
  ELSE Patched(TextLines(applyTrace(originalLines, diffLinesOf(diff)).out))

----------------------------------------------------------------------------
(* SpecDiff: the diff of two small texts is generated and applied to the    *)
(* first.                                                                   *)

MaxTextLines == 3

TextLineForms == {"a", "b", ""}

SmallTexts == UNION {[1..k -> TextLineForms] : k \in 1..MaxTextLines}

DiffCall(a, b) ==
  [stage |-> "called", tool |-> "generateUnifiedDiff", a |-> a, b |-> b,
   diff |-> <<>>, result |-> Thrown("")]

InitDiff ==
  /\ MemoryEmpty /\ LoopIdle /\ calls = 0
  /\ inflight = <<>> /\ serialMessages = <<>> /\ serialPending = <<>>
  /\ disk = NoFile
  /\ \E a \in SmallTexts, b \in SmallTexts : probe = DiffCall(a, b)

DiffGenerate ==
  /\ probe # NoCall /\ probe.stage = "called"
  /\ probe' = [probe EXCEPT !.stage = "generated",
                            !.diff = generateUnifiedDiff(probe.a, probe.b)]
  /\ XmlUnchanged

DiffApply ==
  /\ probe # NoCall /\ probe.stage = "generated"
  /\ probe' = [probe EXCEPT !.stage = "returned",
                            !.result = applyUnifiedDiff(probe.a, probe.diff)]
  /\ XmlUnchanged

NextDiff ==
  \/ DiffGenerate
  \/ DiffApply

SpecDiff == InitDiff /\ [][NextDiff]_vars

----------------------------------------------------------------------------
(* SpecPatch: a diff of one hunk, as a model writes it, is applied to a     *)
(* small file.                                                              *)

MaxPatchFileLines == 4

MaxHunkLines == 3

PatchFiles == UNION {[1..k -> {"a", "b"}] : k \in 1..MaxPatchFileLines}

HunkLineForms ==
  {DiffLine(" ", "a"), DiffLine(" ", "b"), DiffLine("-", "b"), DiffLine("+", "c")}

HunkBodies == UNION {[1..k -> HunkLineForms] : k \in 1..MaxHunkLines}

\* the declared positions: the first lines, and one far beyond the window
DeclaredStarts == {1, 2, FUZZY_WINDOW + 100}

CountOf(body, ts) == Cardinality({i \in 1..Len(body) : body[i].t \in ts})

OneHunkDiff(oldStart, body) ==
  <<DiffLine("---", "file"), DiffLine("+++", "file"),
    HunkHeader(oldStart, CountOf(body, {" ", "-"}), oldStart, CountOf(body, {" ", "+"}))>>
    \o body

PatchCall(file, oldStart, body) ==
  [stage |-> "called", tool |-> "applyUnifiedDiff", file |-> file, oldStart |-> oldStart,
   body |-> body, result |-> Thrown(""), applied |-> <<>>]

InitPatch ==
  /\ MemoryEmpty /\ LoopIdle /\ calls = 0
  /\ inflight = <<>> /\ serialMessages = <<>> /\ serialPending = <<>>
  /\ disk = NoFile
  /\ \E file \in PatchFiles, oldStart \in DeclaredStarts, body \in HunkBodies :
       probe = PatchCall(file, oldStart, body)

\* applied records where the hunk was applied (0-based), when it was.
PatchApply ==
  /\ probe # NoCall /\ probe.stage = "called"
  /\ probe' = [probe EXCEPT
                 !.stage = "returned",
                 !.result = applyUnifiedDiff(probe.file, OneHunkDiff(probe.oldStart, probe.body)),
                 !.applied = applyTrace(probe.file,
                                        OneHunkDiff(probe.oldStart, probe.body)).applied]
  /\ XmlUnchanged

NextPatch == PatchApply

SpecPatch == InitPatch /\ [][NextPatch]_vars

----------------------------------------------------------------------------
(* SpecSchema: turns whose output holds a tool call that carries a field of *)
(* another tool, alone or among well-formed calls.                          *)

\* <terminal_run> with a command and the <path> of a write_code
RunLsWithPath ==
  Block("terminal_run", "tags",
        Params("a.py", Undefined, "ls", "out", Undefined, Undefined),
        "<terminal_run><command>ls</command><args>out</args><path>a.py</path></terminal_run>")

\* <terminal_run> with a command and the <content> of a write_code
RunLsWithContent ==
  Block("terminal_run", "tags",
        Params(Undefined, "print(1)", "ls", "out", Undefined, Undefined),
        "<terminal_run><command>ls</command><args>out</args><content><![CDATA[print(1)]]></content></terminal_run>")

\* <write_code> with the <command> of a terminal_run
WriteWithCommand ==
  Block("write_code", "tags",
        Params("a.py", "print(1)", "ls", Undefined, Undefined, Undefined),
        "<write_code><path>a.py</path><content><![CDATA[print(1)]]></content><command>ls</command></write_code>")

MaxSchemaTurns == 2

SchemaOutputs ==
  {Output("", <<RunLsWithPath>>),
   Output("", <<RunLsWithContent>>),
   Output("", <<WriteWithCommand>>),
   Output("", <<RunWithPath>>),
   Output("", <<RunLs>>),
   Output("", <<ReadA, RunLsWithPath>>),
   Output("", <<WriteWithCommand, RunLs>>)}

InitSchema == MemoryEmpty /\ ConcIdle /\ InitLoop /\ calls = 0

NextSchema ==
  \/ RevalidateErrorFeedback
  \/ Think(SchemaOutputs, MaxSchemaTurns)
  \/ StartAction
  \/ ExecuteAction(AllResults)
  \/ Reflect("by_status")
  \/ EndTurn

SpecSchema == InitSchema /\ [][NextSchema]_vars

----------------------------------------------------------------------------
(* SpecRecheck: reads that fail for a transient reason, writes to the path  *)
(* that failed, and other failures in between.                              *)

MaxRecheckTurns == 3

RecheckOutputs ==
  {Output("", <<ReadA>>),
   Output("", <<WriteA>>),
   Output("", <<RunLs>>),
   Output("", <<WriteA, RunLs>>)}

InitRecheck == MemoryEmpty /\ ConcIdle /\ InitLoop /\ calls = 0

NextRecheck ==
  \/ RevalidateErrorFeedback
  \/ Think(RecheckOutputs, MaxRecheckTurns)
  \/ StartAction
  \/ ExecuteAction(AllResults)
  \/ Reflect("any")
  \/ EndTurn

SpecRecheck == InitRecheck /\ [][NextRecheck]_vars

----------------------------------------------------------------------------
(* SpecStall: an LLM that returns nothing, or prose without a tool call.    *)

MaxStallTurns == 11

StallOutputs == {Output("", <<>>), Output("ok", <<>>)}

InitStall == MemoryEmpty /\ ConcIdle /\ InitLoop /\ calls = 0

NextStall ==
  \/ RevalidateErrorFeedback
  \/ Think(StallOutputs, MaxStallTurns)
  \/ EndTurn

SpecStall == InitStall /\ [][NextStall]_vars

----------------------------------------------------------------------------
(* SpecInvalid: an LLM whose every output holds invalid tool calls only: a  *)
(* call that fails the validation of its arguments, a block that is never   *)
(* closed, a finish without a status.                                       *)

MaxInvalidTurns == 11

InvalidOutputs ==
  {Output("", <<WriteNoPath>>),
   Output("", <<UnterminatedWrite, FinishNoStatus>>)}

InitInvalid == MemoryEmpty /\ ConcIdle /\ InitLoop /\ calls = 0

NextInvalid ==
  \/ RevalidateErrorFeedback
  \/ Think(InvalidOutputs, MaxInvalidTurns)
  \/ StartAction
  \/ EndTurn

SpecInvalid == InitInvalid /\ [][NextInvalid]_vars

----------------------------------------------------------------------------
(* SpecPair: one caller appends the same tool call again and again, each    *)
(* followed by its result or by the comments of a reflection, which may be  *)
(* empty or hold nothing but the path of the workspace.                     *)

MaxPairCalls == 7

EmptyFeedback == Call("user", EmptyContent, "", FALSE, NoMeta)

PathOnlyFeedback == Call("user", WithPath(EmptyContent, AbsPath), "", FALSE, NoMeta)

PairCalls == {WriteCodeCall, WriteCodeResult, EmptyFeedback, PathOnlyFeedback}

InitPair == MemoryEmpty /\ ConcIdle /\ LoopIdle /\ calls = 0

PairAddMessage ==
  /\ calls < MaxPairCalls
  /\ \E c \in PairCalls :
       AddToMemory(c.role, c.content, c.action_type, c.memorized, c.meta)
  /\ calls' = calls + 1
  /\ UNCHANGED <<concVars, loopVars>>

NextPair == PairAddMessage

SpecPair == InitPair /\ [][NextPair]_vars

----------------------------------------------------------------------------
(* The LLM client (completion/llm.base.js): request and handleSSE.          *)
(* A message of the stream is a record of what messageToValue reads of it:  *)
(* whether it starts with "data:", the kind of its payload and the text of  *)
(* its delta.  The buffer `content` of handleSSE holds, between two data     *)
(* events, what follows the last splitter: nothing, or a fragment, a message *)
(* whose splitter has not arrived, cut short or not.  No delta text holds   *)
(* "data:".                                                                 *)

SSEMessage(prefix, kind, text) == [prefix |-> prefix, kind |-> kind, text |-> text]

\* data: [DONE]
DoneMessage == SSEMessage(TRUE, "done", "")

\* A fragment: complete when all of the message but its splitter is there;
\* literal when a fragment cut short holds the whole of "content":"...".
Fragment(m, complete, literal) == [m |-> m, complete |-> complete, literal |-> literal]

Value(type, text) == [type |-> type, text |-> text]

\* messageToValue on a message that arrived whole
messageToValue(message) ==
  IF message.kind = "done"
  THEN IF message.prefix THEN Value("done", "") ELSE Value("unknown", "")
  ELSE CASE message.kind = "garbage" -> Value("unknown", "")
         [] message.kind = "empty" -> Value("text", "")
         [] message.kind = "reasoning" ->
              IF message.text # "" THEN Value("reasoning", message.text) ELSE Value("", "")
         [] OTHER -> IF message.text # "" THEN Value("text", message.text) ELSE Value("", "")

\* messageToValue on the text of a fragment: JSON.parse fails on a message cut
\* short.
fragmentToValue(f) == IF f.complete THEN messageToValue(f.m) ELSE Value("unknown", "")

\* applyValueToContent: the chunk is appended to fullContent and handed to
\* onTokenStream.
applyValueToContent(st, value) ==
  IF value.type \notin {"text", "reasoning"} THEN st
  ELSE LET opens == value.type = "reasoning" /\ st.fullContent = ""
           closes == value.type = "text" /\ st.reasoning
           ch == IF opens THEN "<think>" \o value.text
                 ELSE IF closes THEN "</think>" \o value.text
                 ELSE value.text
       IN IF ch # ""
          THEN [st EXCEPT !.fullContent = @ \o ch, !.tokens = Append(@, ch),
                          !.reasoning = IF opens THEN TRUE ELSE IF closes THEN FALSE ELSE @]
          ELSE [st EXCEPT !.reasoning = IF opens THEN TRUE ELSE IF closes THEN FALSE ELSE @]

\* What the properties keep of the first [DONE]: the text and the number of
\* chunks at that time.
noteDone(st, value) ==
  IF value.type = "done" /\ st.atDone = <<>>
  THEN [st EXCEPT !.atDone = <<[fullContent |-> st.fullContent, tokens |-> Len(st.tokens)]>>]
  ELSE st

consumeSSEMessage(st, message) ==
  applyValueToContent(noteDone(st, messageToValue(message)), messageToValue(message))

RECURSIVE consumeAll(_, _)
\* the while loop of the data handler over the complete messages of content
consumeAll(st, msgs) ==
  IF msgs = <<>> THEN st ELSE consumeAll(consumeSSEMessage(st, Head(msgs)), Tail(msgs))

\* tryBestEffortExtractTextFromJsonish: the text of the first
\* "reasoning_content" or "content" string literal.
tryBestEffortExtractTextFromJsonish(f) ==
  IF f.m.kind \in {"text", "reasoning"} /\ (f.complete \/ f.literal) THEN f.m.text ELSE ""

extractWhenEmpty(st, f) ==
  IF st.fullContent = "" /\ tryBestEffortExtractTextFromJsonish(f) # ""
  THEN applyValueToContent(st, Value("text", tryBestEffortExtractTextFromJsonish(f)))
  ELSE st

\* flushRemainder: the remainder is read line by line when it has data:
\* lines, and otherwise as one message and then, if no text was produced so
\* far, as JSON-ish text.
flushRemainder(st) ==
  IF st.content = <<>> THEN st
  ELSE LET f == st.content[1]
           consumed == applyValueToContent(noteDone(st, fragmentToValue(f)),
                                           fragmentToValue(f))
       IN [(IF f.m.prefix THEN consumed ELSE extractWhenEmpty(consumed, f))
             EXCEPT !.content = <<>>]

\* The data handler: content += chunk, then every complete message is
\* consumed.  closes tells whether the chunk brings the rest of the fragment
\* in content and its splitter.
onData(st, chunk) ==
  LET first == IF st.content # <<>> /\ chunk.closes THEN <<st.content[1].m>> ELSE <<>>
  IN [consumeAll(st, first \o chunk.msgs) EXCEPT !.content = chunk.rest,
                                                 !.events = @ + 1]

----------------------------------------------------------------------------
(* SpecSSE: one call of the client.  The request fails or is cancelled      *)
(* before a response, or the response streams chunks until its end, its     *)
(* cancellation or an error of the connection.                              *)

MaxSSEChunks == 3

MaxChunkMessages == 1

SSEMessages ==
  {DoneMessage,
   SSEMessage(TRUE, "text", "a"),
   SSEMessage(TRUE, "text", "b"),
   SSEMessage(TRUE, "reasoning", "r"),
   SSEMessage(TRUE, "empty", ""),
   SSEMessage(TRUE, "garbage", ""),
   SSEMessage(FALSE, "text", "c")}

SSEFragments ==
  {Fragment(m, TRUE, TRUE) : m \in SSEMessages}
    \cup {Fragment(SSEMessage(TRUE, "text", "a"), FALSE, TRUE),
          Fragment(SSEMessage(FALSE, "text", "c"), FALSE, TRUE),
          Fragment(SSEMessage(FALSE, "text", "c"), FALSE, FALSE)}

MessagesUpTo(n) == UNION {[1..k -> SSEMessages] : k \in 0..n}

SSEChunks(st) ==
  {[closes |-> c, msgs |-> ms, rest |-> r] :
     c \in (IF st.content = <<>> THEN {FALSE} ELSE {TRUE}),
     ms \in MessagesUpTo(MaxChunkMessages),
     r \in {<<>>} \cup {<<f>> : f \in SSEFragments}}

\* The errors axios.request resolves to through .catch(err => err)
RequestErrors ==
  {[code |-> "ERR_CANCELED", status |-> "undefined", cancelled |-> TRUE],
   [code |-> "ERR_BAD_REQUEST", status |-> "400", cancelled |-> FALSE],
   [code |-> "ECONNREFUSED", status |-> "undefined", cancelled |-> FALSE]}

SSECall ==
  [tool |-> "handleSSE", stage |-> "requested", content |-> <<>>, fullContent |-> "",
   reasoning |-> FALSE, tokens |-> <<>>, atDone |-> <<>>, events |-> 0,
   cancelled |-> FALSE, outcome |-> "", returned |-> ""]

InitSSE ==
  /\ MemoryEmpty /\ LoopIdle /\ inflight = <<>> /\ serialMessages = <<>>
  /\ serialPending = <<>> /\ disk = NoFile /\ calls = 0
  /\ probe = SSECall

SSEUnchanged ==
  UNCHANGED <<memVars, inflight, serialMessages, serialPending, disk, calls, loopVars>>

\* request: axios.request fails or is aborted before a response, and
\* handleSSE returns the code of the error.
SSERequestFails ==
  /\ probe.stage = "requested"
  /\ \E response \in RequestErrors :
       probe' = [probe EXCEPT !.stage = "returned",
                              !.tokens = Append(@, response.code \o ":" \o response.status),
                              !.cancelled = response.cancelled,
                              !.outcome = "resolved",
                              !.returned = response.code]
  /\ SSEUnchanged

SSEResponds ==
  /\ probe.stage = "requested"
  /\ probe' = [probe EXCEPT !.stage = "streaming"]
  /\ SSEUnchanged

SSEData ==
  /\ probe.stage = "streaming"
  /\ probe.events < MaxSSEChunks
  /\ \E chunk \in SSEChunks(probe) : probe' = onData(probe, chunk)
  /\ SSEUnchanged

SSEEnd ==
  /\ probe.stage = "streaming"
  /\ probe' = [flushRemainder(probe) EXCEPT !.stage = "returned", !.outcome = "resolved",
                                            !.returned = flushRemainder(probe).fullContent]
  /\ SSEUnchanged

\* response.data emits the error of an aborted request
SSECancel ==
  /\ probe.stage = "streaming"
  /\ probe' = [flushRemainder(probe) EXCEPT !.stage = "returned", !.outcome = "resolved",
                                            !.cancelled = TRUE,
                                            !.returned = flushRemainder(probe).fullContent]
  /\ SSEUnchanged

\* response.data emits any other error
SSEError ==
  /\ probe.stage = "streaming"
  /\ probe' = [probe EXCEPT !.stage = "returned", !.outcome = "rejected"]
  /\ SSEUnchanged

NextSSE ==
  \/ SSERequestFails
  \/ SSEResponds
  \/ SSEData
  \/ SSEEnd
  \/ SSECancel
  \/ SSEError

SpecSSE == InitSSE /\ [][NextSSE]_vars

----------------------------------------------------------------------------
(* Properties of the control loop *)

\* C1: the max-retries failure is returned only once MAX_RETRY_TIMES
\* consecutive technical failures have occurred; after fewer the loop takes
\* another turn.
C1_MaxRetriesOnlyAfterMaxFailures ==
  result \in {MaxRetriesResult(TRUE), MaxRetriesResult(FALSE)}
    => hist.consecFail >= MAX_RETRY_TIMES

\* The status the LLM wrote on a finish block is SUCCESS or FAILED, in any
\* case.
FinishStatusValid(b) ==
  b.tool = "finish" /\ toUpperCase(OrEmpty(b.params.status)) \in {"SUCCESS", "FAILED"}

\* C2: a finish whose status is missing or is not SUCCESS/FAILED never ends
\* the task: whenever completeCodeAct has returned the result of a finish,
\* the finish block the LLM emitted carried a valid status.
C2_InvalidFinishNeverEndsTask ==
  result \in {"finish:success", "finish:failure"}
    => FinishStatusValid(hist.raw.blocks[idx])

\* The loop is about to take the reflection on a terminal_run result that is
\* an expected test failure or a failure with exit code 1, and the
\* reflection reports a failure.
C3_Case ==
  /\ pc = "reflect"
  /\ hist'.lastClass # "success"
  /\ actions[idx].type = "terminal_run"
  /\ \/ isExpectedTestFailure(actions[idx], action_result)
     \/ (action_result.status = "failure"
           /\ getTerminalRunExitCode(action_result) = <<1>>)

\* C3 as stated: an expected test failure or an exit-code-1 failure of
\* terminal_run leaves retryCount at exactly the value it had before.
C3_RetryCountUnchanged == [][C3_Case => retryCount' = retryCount]_vars

\* C3: an expected test failure or an exit-code-1 failure of terminal_run
\* does not increment retryCount but resets it: after the action retryCount
\* is 0, and the retry of the turn is taken without penalty.
C3_RetryCountReset ==
  [][C3_Case => retryCount' = 0 /\ requestedRetryNoPenalty']_vars

\* C3 witness: such a failure met a retryCount above 0 and has reset it.
C3_Witness ==
  /\ pc = "end"
  /\ hist.lastClass \in {"expected_test_failure", "non_fatal_exit1"}
  /\ hist.retryBefore > 0
  /\ retryCount = 0

\* C7: the actions of a turn are handled one at a time in emission order: the
\* handling of action i + 1 starts only when that of action i is complete;
\* and after an action whose failure requested a retry nothing more of the
\* turn is handled.
C7_SequentialUntilRetry ==
  LET log == hist.log
  IN \A k \in 1..Len(log) :
       /\ k = 1 => log[k].i = 1 /\ log[k].kind \notin {"completed", "thrown"}
       /\ k > 1 =>
            IF log[k].kind \in {"completed", "thrown"}
            THEN log[k - 1].kind = "dispatch" /\ log[k - 1].i = log[k].i
            ELSE log[k - 1].kind # "dispatch" /\ log[k].i = log[k - 1].i + 1
       /\ k < Len(log) => ~log[k].retry

\* C7 witness: in a turn of several actions the second or a later action
\* failed and requested a retry, and an action after it was left alone.
C7_Witness ==
  /\ pc = "end"
  /\ multiActionMode
  /\ requestedRetry
  /\ idx > 1
  /\ idx < Len(actions)
  /\ hist.log[Len(hist.log)].kind = "completed"
  /\ hist.log[Len(hist.log)].i = idx

\* A block that, emitted alone, resolves to one action that is neither an
\* invalid block nor a call failing the validation of its arguments.
ValidAlone(b) ==
  LET a == resolveActionsFromLLMOutput(Output("", <<b>>))
  IN Len(a) = 1 /\ ActionKind(a[1]) \notin {"invalid_block", "invalid_args"}

\* Block j of the turn's output has been executed (dispatched to the runtime
\* or treated by the loop itself).
Executed(j) ==
  \E k \in 1..Len(hist.log) :
    /\ hist.log[k].i = j
    /\ hist.log[k].kind \notin {"invalid_block", "invalid_args", "to_be_continue",
                                "completed", "thrown"}

\* A turn that emitted several actions, one of them invalid, is over.
InvalidActionTurnOver ==
  /\ pc \in {"top", "end", "done"}
  /\ turns > 0
  /\ Len(hist.raw.blocks) > 1
  /\ \E j \in 1..Len(hist.raw.blocks) : ~ValidAlone(hist.raw.blocks[j])

InEmissionOrder ==
  \A k, l \in 1..Len(hist.log) : k < l => hist.log[k].i <= hist.log[l].i

\* A block before block j lacks its closing tag.
AfterUnterminated(j) ==
  \E k \in 1..(j - 1) : hist.raw.blocks[k].form = "open"

\* A valid action before block j has stopped the turn.
AfterStop(j) ==
  \E k \in 1..(j - 1) :
    /\ ValidAlone(hist.raw.blocks[k])
    /\ \E e \in 1..Len(hist.log) :
         hist.log[e].i = k /\ hist.log[e].ctl \in {"break", "return"}

CallContent == IF multiActionMode THEN InjectedCall(actions[idx]) ELSE output

IsToolResult(m) == m.role = "user" /\ m.action_type \in TOOL_TYPES

\* C10: the prune_hash of a stored result is that of the assistant call
\* message immediately before it.
C10_ResultSharesPruneHash ==
  \A i \in 2..Len(messages) :
    IsToolResult(messages[i]) /\ messages[i - 1].role = "assistant"
      => messages[i].meta.prune_hash = messages[i - 1].meta.prune_hash

\* C10 witness: a result is stored after its call and both carry the
\* prune_hash of the call.
C10_Witness ==
  \E i \in 2..Len(messages) :
    /\ IsToolResult(messages[i])
    /\ messages[i - 1].role = "assistant"
    /\ messages[i - 1].meta.prune_hash # NoHash
    /\ messages[i].meta.prune_hash = messages[i - 1].meta.prune_hash

----------------------------------------------------------------------------
(* Properties of the handling of invalid outputs and of exceptions *)

\* The turn of an output that is a single tool call, which cannot be parsed
\* or fails the validation of its arguments, is over and the loop is about
\* to take the next turn.
SingleInvalidCallTurnOver ==
  /\ pc = "top"
  /\ turns > 0
  /\ result = ""
  /\ hist.raw.prose = ""
  /\ Len(hist.raw.blocks) = 1
  /\ ~ValidAlone(hist.raw.blocks[1])

\* C11: when the output of a turn is a single tool call that cannot be parsed
\* or that fails validation, the loop removes that assistant message from the
\* memory, appends a developer correction and retries the turn: at the next
\* turn the memory holds no assistant message of that output and ends with
\* the developer correction.
C11_SingleInvalidCallDropped ==
  SingleInvalidCallTurnOver =>
    /\ Len(messages) > 0
    /\ messages[Len(messages)].role = "developer"
    /\ \A i \in 1..Len(messages) :
         ~(messages[i].role = "assistant" /\ messages[i].content = output)

\* The LLM returns an empty output.
EmptyOutputTurn == pc = "think" /\ turns' = turns + 1 /\ output'.len = 0

\* What an empty-output turn leaves of the context, and the end of the
\* memory after it: from message `from` on no assistant message, and the
\* developer correction last.
EmptyOutputHandled(from) ==
  /\ pc' = "top"
  /\ prompt_mode' = prompt_mode
  /\ reflection' = reflection
  /\ last_finish_status' = last_finish_status
  /\ \A i \in from..Len(messages') : messages'[i].role # "assistant"
  /\ Len(messages') >= from
  /\ messages'[Len(messages')].role = "developer"
  /\ messages'[Len(messages')].content = EmptyOutputCorrection

\* C12 as stated: on an empty output the loop removes the empty assistant
\* message, appends a developer correction and takes another turn, leaving
\* prompt_mode, context.reflection, last_finish_status and every earlier
\* message of the memory unchanged.
C12_EmptyOutputKeepsMemory ==
  [][EmptyOutputTurn =>
       /\ EmptyOutputHandled(Len(messages) + 1)
       /\ SubSeq(messages', 1, Len(messages)) = messages]_vars

\* C12: on an empty output the loop removes the empty assistant message,
\* appends a developer correction and takes another turn, leaving
\* prompt_mode, context.reflection and last_finish_status unchanged; the
\* earlier messages of the memory are unchanged but for the oldest ones,
\* which the character-budget pruning of addMessage may drop.
C12_EmptyOutputKeepsNewestMemory ==
  [][EmptyOutputTurn =>
       \E k \in 1..(Len(messages) + 1) :
         /\ EmptyOutputHandled(Len(messages) - k + 2)
         /\ SubSeq(messages', 1, Len(messages) - k + 1)
              = SubSeq(messages, k, Len(messages))]_vars

\* C12 witness: an empty output has been answered by the correction while
\* the memory held the messages of an earlier turn and the context a
\* reflection.
C12_Witness ==
  /\ pc = "top"
  /\ turns > 1
  /\ output.len = 0
  /\ reflection # ""
  /\ Len(messages) > 2
  /\ messages[1].role = "assistant"
  /\ messages[Len(messages)].content = EmptyOutputCorrection

\* C13: an exception raised during a turn appends its sanitized message to
\* the memory as a user message and counts as one retry, and once
\* MAX_RETRY_TIMES consecutive turns have each raised an exception the task
\* has returned the max-consecutive-exceptions failure: no further turn is
\* started.
C13_TenExceptionsEndTask ==
  hist.lastClass = "exception" /\ pc \in {"top", "done"} =>
    /\ messages[Len(messages)].role = "user"
    /\ pc = "top" => retryCount = hist.consecFail
    /\ hist.consecFail >= MAX_RETRY_TIMES
         => pc = "done" /\ result = MaxRetriesResult(TRUE)

\* The LLM call of the turn raises a pause-required error.
PauseRaised == pc = "think" /\ turns' = turns + 1 /\ hist'.lastClass = "pause"

\* C14: when the LLM call raises a pause-required error, completeCodeAct
\* returns at once with the error as its result: no retry is counted, no
\* message is appended to the memory, and no further LLM turn is taken.
C14_PauseReturnsAtOnce ==
  /\ [][PauseRaised => /\ pc' = "done"
                       /\ result' \in PauseRequiredErrors
                       /\ retryCount' = retryCount
                       /\ messages' = messages
                       /\ pendingRepeatError' = pendingRepeatError]_vars
  /\ [][pc = "done" => turns' = turns /\ result' = result]_vars

C14_Witness ==
  /\ pc = "done" /\ hist.lastClass = "pause" /\ result = "LLM Call Failed"
  /\ turns > 2 /\ retryCount > 0 /\ Len(messages) > 0

----------------------------------------------------------------------------
(* The rejection of a repeated assistant output (SpecMem)                   *)

\* The step is an addMessage call that appends a message of the role.
Appended(role) ==
  /\ calls' = calls + 1
  /\ messages' # messages
  /\ Len(messages') > 0
  /\ messages'[Len(messages')].role = role

\* An assistant message is appended whose content is that of one of the last
\* REPEAT_DETECT_WINDOW non-pruned assistant messages.
RepeatedAssistantAppended ==
  /\ Appended("assistant")
  /\ computeRepeatHashFromContent(messages'[Len(messages')].content)
       \in findRecentAssistantRepeatHashes(messages, REPEAT_DETECT_WINDOW)

\* Message i of the memory is the error that rejects a repeated output.
IsRepeatError(msgs, i) ==
  /\ i \in 1..Len(msgs)
  /\ msgs[i].role = "user"
  /\ msgs[i].content = RepeatErrorText
  /\ msgs[i].action_type = "llm_output_rejected_repeat"

\* C15: an assistant message that repeats one of the last 2 non-pruned
\* assistant messages leaves a repeat error pending; while it is pending, the
\* next "Acknowledged." of the user is stored as the "ERROR: repeated
\* assistant output" message instead, any other user message leaves it
\* pending, and an assistant message is stored with that error as a user
\* message directly before it.
C15_RepeatErrorInjected ==
  /\ [][RepeatedAssistantAppended => pendingRepeatError' # <<>>]_vars
  /\ [][pendingRepeatError # <<>> /\ calls' = calls + 1 =>
          \/ messages' = messages /\ pendingRepeatError' = pendingRepeatError
          \/ /\ Appended("user")
             /\ messages'[Len(messages')].content \notin {Acknowledged, RepeatErrorText}
             /\ pendingRepeatError' = pendingRepeatError
          \/ /\ Appended("user")
             /\ IsRepeatError(messages', Len(messages'))
             /\ pendingRepeatError' = <<>>
          \/ /\ Appended("assistant")
             /\ IsRepeatError(messages', Len(messages') - 1)]_vars

C15_Witness ==
  /\ pendingRepeatError = <<>>
  /\ IsRepeatError(messages, Len(messages))
  /\ \E i \in 1..(Len(messages) - 2) :
       IsRepeatError(messages, i) /\ messages[i + 1].role = "assistant"

----------------------------------------------------------------------------
(* The prompt mode after a terminal_run                                     *)

\* The runtime has just returned the result of a terminal_run action.
TerminalRunExecuted ==
  pc = "reflect" /\ actions[idx].type = "terminal_run"

\* C16 as stated: after a terminal_run action has been executed, prompt_mode
\* is "codecorrector" if the result status is failure and "build" if the
\* result status is success.
C16_PromptModeFollowsStatus ==
  TerminalRunExecuted =>
    prompt_mode = (IF action_result.status = "failure" THEN "codecorrector" ELSE "build")

\* C16 amended: after a terminal_run action has been executed, prompt_mode is
\* "codecorrector" if the result status is failure, or its exit code is a
\* number other than 0, or its output carries an error signature, and "build"
\* otherwise.
C16_PromptModeFollowsFailureSigns ==
  TerminalRunExecuted =>
    prompt_mode = (IF \/ action_result.status = "failure"
                      \/ action_result.exitCode \notin {<<>>, <<0>>}
                      \/ action_result.signature
                   THEN "codecorrector" ELSE "build")

C16_Witness ==
  /\ TerminalRunExecuted
  /\ action_result.status = "success"
  /\ action_result.signature
  /\ prompt_mode = "codecorrector"
  /\ turns > 1

----------------------------------------------------------------------------
(* The finish status kept for the prompt of the next task                   *)

\* The output of the turn at hand holds a finish that carries no status.
FinishWithoutStatusEmitted ==
  \E i \in 1..Len(hist.raw.blocks) :
    /\ hist.raw.blocks[i].tool = "finish"
    /\ hist.raw.blocks[i].params.status = Undefined

\* C17: when the LLM emits a finish that carries no status, no step of that
\* turn sets context.last_finish_status: it keeps the value it had before
\* the turn.
C17_NoStatusKeepsFinishStatus ==
  [][FinishWithoutStatusEmitted' => last_finish_status' = last_finish_status]_vars

----------------------------------------------------------------------------
(* The Error Feedback block of the prompt                                   *)

\* The prompt thinking() builds for the turn about to be taken.
ThinkingPrompt == resolveThinkingPrompt(reflection, last_finish_status)

\* The first turn of a task is about to be taken, and the task before it
\* ended with a finish of status SUCCESS.
NextTaskAfterSuccess ==
  pc = "think" /\ turns = 0 /\ hist.previous = "finish:success"

\* C18: after a task ends with a finish action of status SUCCESS, the prompt
\* built for the next task does not contain the "=== Error Feedback ==="
\* block.
C18_NoErrorFeedbackAfterSuccess ==
  NextTaskAfterSuccess =>
    \A i \in 1..Len(ThinkingPrompt) : ThinkingPrompt[i] # ErrorFeedbackHeader

C18_Witness ==
  /\ NextTaskAfterSuccess
  /\ hist.tasks = 2
  /\ Len(ThinkingPrompt) = Len(ThinkingTemplate(reflection)) - 3
  /\ prompt_mode = "build"

----------------------------------------------------------------------------
(* The pruning of the occurrences of a tool call (SpecMem)                  *)

Min(S) == CHOOSE x \in S : \A y \in S : x <= y

\* The messages of the occurrence anchored at call i: the call and the
\* result directly after it.
OccurrenceAt(msgs, i) ==
  IF /\ i < Len(msgs)
     /\ msgs[i + 1].role = "user"
     /\ msgs[i + 1].meta.prune_hash = msgs[i].meta.prune_hash
     /\ ~msgs[i + 1].meta.pruned
  THEN {i, i + 1} ELSE {i}

\* The step appends a tool call under key k to a memory that holds three
\* non-pruned occurrences of k.
FourthOccurrenceAppended(k) ==
  /\ Appended("assistant")
  /\ messages'[Len(messages')].meta.toolCallKey = k
  /\ Cardinality(KeptOccurrences(messages, k)) = PRUNE_KEEP_OCCURRENCES

\* Message i of the memory before the step is, after it, the message at
\* index j, emptied: same role, empty content, not memorized, marked pruned.
BlankedAt(i, j) ==
  /\ j \in 1..Len(messages')
  /\ messages'[j].role = messages[i].role
  /\ messages'[j].content = EmptyContent
  /\ ~messages'[j].memorized
  /\ messages'[j].meta.pruned

\* C19 as stated: when the memory holds three non-pruned occurrences of a
\* toolCallKey and a fourth tool call with that key is appended, exactly the
\* oldest of those occurrences (its call and its adjacent result) is blanked,
\* and the two newer occurrences and all messages of other keys are left
\* unchanged.
C19_FourthBlanksOldest ==
  [][\A k \in ToolCallKeys(messages) :
       FourthOccurrenceAppended(k) =>
         LET oldest == OccurrenceAt(messages, Min(KeptOccurrences(messages, k)))
         IN /\ Len(messages') > Len(messages)
            /\ \A i \in 1..Len(messages) :
                 IF i \in oldest THEN BlankedAt(i, i)
                 ELSE messages'[i] = messages[i]]_vars

\* The number of messages the step removes from the head of the memory: an
\* assistant message is appended, after the pending repeat error if there is
\* one.
RemovedFromHead ==
  Len(messages) + (IF pendingRepeatError # <<>> THEN 2 ELSE 1) - Len(messages')

\* The estimated cost of the first d messages of the memory, those of the
\* set blanked counting for nothing.
HeadCost(d, blanked) ==
  LET msgs == [i \in 1..d |-> IF i \in blanked THEN blankMessagePayload(messages[i])
                              ELSE messages[i]]
  IN SumCost(msgs, 1)

\* C19 amended: in that case exactly the oldest occurrence is blanked and the
\* two newer occurrences and the messages of other keys are left unchanged,
\* except that, when the memory and the incoming message together cost more
\* than PRUNE_MAX_CHARS, the character-budget pruning of the same call
\* removes the oldest messages of the memory.
C19_FourthBlanksOldestOfKept ==
  [][\A k \in ToolCallKeys(messages) :
       FourthOccurrenceAppended(k) =>
         LET oldest == OccurrenceAt(messages, Min(KeptOccurrences(messages, k)))
             d == RemovedFromHead
         IN /\ d \in 0..Len(messages)
            /\ d > 0 => HeadCost(d, oldest) + SumCost(messages', 1) > PRUNE_MAX_CHARS
            /\ \A i \in (d + 1)..Len(messages) :
                 IF i \in oldest THEN BlankedAt(i, i - d)
                 ELSE messages'[i - d] = messages[i]]_vars

\* A memory in which the fourth call of a.py has blanked the first, and
\* another in which the budget has removed the blanked occurrence.
C19_Witness ==
  \E k \in ToolCallKeys(messages) :
    /\ Cardinality(KeptOccurrences(messages, k)) = PRUNE_KEEP_OCCURRENCES
    /\ messages[1].role = "assistant"
    /\ messages[1].meta.toolCallKey = k
    /\ messages[1].meta.pruned
    /\ messages[1].content = EmptyContent
    /\ \E i \in 2..Len(messages) :
         messages[i].meta.toolCallKey \notin {k, NoHash} /\ ~messages[i].meta.pruned

\* The number of messages an addMessage step stores at the end of the
\* memory: none when it returns on an adjacent duplicate, the pending repeat
\* error and the message when an assistant message meets a pending error,
\* else the message.
StoredAtEnd ==
  IF messages' = messages THEN 0
  ELSE IF pendingRepeatError # <<>> /\ messages'[Len(messages')].role = "assistant" THEN 2
  ELSE 1

----------------------------------------------------------------------------
(* Properties of the keys of the stored tool calls *)

\* The stored tool calls that carry the toolCallKey k.
CallsWithKey(msgs, k) ==
  {i \in 1..Len(msgs) : msgs[i].role = "assistant" /\ msgs[i].meta.toolCallKey = k}

\* C21: at all times the assistant messages of the stored memory that carry
\* one and the same meta.toolCallKey carry one and the same meta.prune_hash.
C21_OnePruneHashPerToolCallKey ==
  \A k \in ToolCallKeys(messages) :
    \A i, j \in CallsWithKey(messages, k) :
      messages[i].meta.prune_hash = messages[j].meta.prune_hash

\* C21 witness: the memory holds two tool calls under each of two
\* toolCallKeys, a call of the other key stored between two of one key.
C21_Witness ==
  \E k1, k2 \in ToolCallKeys(messages) :
    /\ k1 # k2
    /\ Cardinality(CallsWithKey(messages, k2)) >= 2
    /\ \E i, j \in CallsWithKey(messages, k1) :
         \E m \in CallsWithKey(messages, k2) : i < m /\ m < j

----------------------------------------------------------------------------
(* Properties of the stored contents *)

\* C22: no content stored in the memory holds a path of the conversation
\* workspace, /workspace/user_N/Conversation_x/ or Conversation_x/, whatever
\* content the caller passed to addMessage.  Every form a path takes in a
\* content ends in Conversation_x/.
C22_NoWorkspacePathStored ==
  \A i \in 1..Len(messages) : messages[i].content.frag \notin PathForms

----------------------------------------------------------------------------
(* Properties of the memory file *)

\* C23: the memory file is replaced atomically: at every instant, after a
\* failed write or the death of the process in the middle of a save
\* included, loading the file yields the complete list it held before the
\* save or the complete list the save writes, never a partial or empty one.
C23_FileReplacedAtomically ==
  \/ loadMemory(disk) = disk.prev
  \/ loadMemory(disk) = disk.data

----------------------------------------------------------------------------
(* Properties of the actions the loop treats itself *)

LocalActionTypes == {"information", "patch_complete"}

\* The actions of the turn the loop has treated as local ones.
TreatedLocally ==
  {hist.log[n].i : n \in {k \in 1..Len(hist.log) : hist.log[k].kind \in LocalActionTypes}}

\* C24: an information or patch_complete action is never passed to
\* runtime.execute_action, whether it is the only action of its turn or one
\* of several: the loop is never at the call of the runtime with one.
C24_LocalActionsNeverExecuted ==
  pc \in {"exec", "reflect"} => actions[idx].type \notin LocalActionTypes

\* C24 witness: the loop has treated an information action of a turn of
\* several actions itself and is at the call of the runtime with a later
\* action of that turn.
C24_Witness ==
  /\ pc = "exec"
  /\ Len(actions) > 1
  /\ \E i \in TreatedLocally : i < idx /\ actions[i].type = "information"

----------------------------------------------------------------------------
(* Properties of terminal_run *)

RunReturned == probe # NoRun /\ probe.stage = "returned"

\* C25: every terminal_run result has a finite numeric meta.exitCode: when
\* the execution supplies none (a timeout, a kill by a signal and a missing
\* command included) it is 1 for status failure and 0 for status success.
C25_ExitCodeAlwaysNumeric ==
  RunReturned =>
    /\ probe.result.exitCode # <<>>
    /\ ~probe.supplied =>
         probe.result.exitCode = (IF probe.result.status = "failure" THEN <<1>> ELSE <<0>>)

----------------------------------------------------------------------------
(* Properties of replace_code_block *)

ReplaceReturned ==
  probe # NoCall /\ probe.stage = "returned" /\ probe.tool = "replace_code_block"

SliceBetween(fileLF, lineStarts, startMatch, endMatch) ==
  IF startMatch.ok /\ endMatch.ok
  THEN <<slice(fileLF, lineStarts[startMatch.startLine + 1],
               replaceEndOffset(lineStarts,
                                endMatch.startLine + Len(endMatch.needleLines) - 1, fileLF))>>
  ELSE <<>>

SliceFrom(fileLF, fileLines, blockLines, nonEmptyIdxs, startMatch) ==
  SliceBetween(fileLF, buildLineStartOffsets(fileLF), startMatch,
    IF startMatch.ok
    THEN progressiveUniqueMatchFromEnd(fileLines, blockLines, nonEmptyIdxs, startMatch.startLine)
    ELSE NoMatch("", <<>>))

SliceIn(fileLF, fileLines, blockLines, nonEmptyIdxs) ==
  SliceFrom(fileLF, fileLines, blockLines, nonEmptyIdxs,
    progressiveUniqueMatchFromStart(fileLines, blockLines, nonEmptyIdxs, 0))

\* <<the slice of the file between the anchors of code_block>>, or <<>> when
\* an anchor is not resolved.
ResolvedSlice(fileText, code_block) ==
  IF ~isNonEmptyLine(code_block) THEN <<>>
  ELSE SliceIn(normalizeTextToLF(fileText), splitLinesNoDelim(normalizeTextToLF(fileText)),
               AnchorLines(splitLinesNoDelim(normalizeTextToLF(code_block))),
               NonEmptyIdxsFrom(splitLinesNoDelim(normalizeTextToLF(code_block)), 0))

SameAsCurrent(file, code_block) ==
  /\ file # <<>>
  /\ ResolvedSlice(file[1], code_block) # <<>>
  /\ normalizeSnippet(code_block) = normalizeSnippet(ResolvedSlice(file[1], code_block)[1])

\* C27: a replace_code_block call whose normalized code_block equals the
\* normalized slice of the file between the resolved anchors returns status
\* failure with meta.keyid = replace_code_block_noop and leaves the target
\* file unchanged.
C27_NoopReplaceFailsFileUnchanged ==
  ReplaceReturned /\ SameAsCurrent(probe.file, probe.code_block) =>
    /\ probe.result.status = "failure"
    /\ probe.result.keyid = "replace_code_block_noop"
    /\ probe.result.file = probe.file

\* C27 witness: a block that repeats two lines of a CRLF file has been
\* refused as a no-op; its first line occurs twice in the file, so the start
\* anchor took both lines.
C27_Witness ==
  /\ ReplaceReturned
  /\ probe.file = <<joinLines(<<(<<"a">>), (<<"b">>), (<<"a">>)>>, <<CR, LF>>)>>
  /\ probe.code_block = joinLines(<<(<<"a">>), (<<"b">>)>>, <<LF>>)
  /\ probe.result.keyid = "replace_code_block_noop"
  /\ SameAsCurrent(probe.file, probe.code_block)

----------------------------------------------------------------------------
(* Properties of the XML of an action *)

XmlReturned ==
  probe # NoCall /\ probe.stage = "returned" /\ probe.tool = "serializeActionToXml"

\* C28: for every canonical action, parsing the XML that serializing the
\* action produces yields one action with the same type and the same params.
C28_ParseSerializeIdentity ==
  XmlReturned => probe.result = <<probe.action>>

\* The canonical actions of the tools the serializer knows, without the cwd
\* of a terminal_run, are read back as they were.
SerializableTypes ==
  {"finish", "write_code", "replace_code_block", "read_file", "terminal_run", "web_search",
   "read_url", "revise_plan", "evaluation", "information", "patch_complete", "mcp_tool"}

ReadBackWhenSerializable ==
  XmlReturned /\ probe.action.type \in SerializableTypes /\ probe.action.params.cwd = <<>> =>
    probe.result = <<probe.action>>

----------------------------------------------------------------------------
(* Properties of the unified diffs *)

DiffReturned ==
  probe # NoCall /\ probe.stage = "returned" /\ probe.tool = "generateUnifiedDiff"

\* C29: for LF-normalized texts A and B (A = B and texts with or without a
\* trailing newline included), applying to A the unified diff generated from
\* A to B succeeds and yields exactly B.
C29_DiffRoundTrip ==
  DiffReturned => probe.result.ok /\ probe.result.out = probe.b

\* The round trip does hold when the first lines of A and B differ: the one
\* hunk of the diff then starts with a change.
RoundTripWithoutLeadingContext ==
  DiffReturned /\ probe.a[1] # probe.b[1] =>
    probe.result.ok /\ probe.result.out = probe.b

PatchReturned ==
  probe # NoCall /\ probe.stage = "returned" /\ probe.tool = "applyUnifiedDiff"

\* the needle occurs in the file at the 0-based line index
MatchesAt(file, needle, index) ==
  /\ index + Len(needle) <= Len(file)
  /\ \A k \in 1..Len(needle) : file[index + k] = needle[k]

MatchesWithin(file, needle, from, to) ==
  {i \in 0..(Len(file) - Len(needle)) : from <= i /\ i <= to /\ MatchesAt(file, needle, i)}

\* the unique position the hunk may be anchored at: within 200 lines of the
\* declared position or, when it occurs nowhere there, in the whole file
UniqueAnchor(file, needle, declared) ==
  IF Len(needle) < 2 THEN {}
  ELSE IF MatchesWithin(file, needle, declared - FUZZY_WINDOW, declared + FUZZY_WINDOW) # {}
  THEN (IF Cardinality(MatchesWithin(file, needle, declared - FUZZY_WINDOW,
                                     declared + FUZZY_WINDOW)) = 1
        THEN MatchesWithin(file, needle, declared - FUZZY_WINDOW, declared + FUZZY_WINDOW)
        ELSE {})
  ELSE IF Cardinality(MatchesWithin(file, needle, 0, Len(file))) = 1
  THEN MatchesWithin(file, needle, 0, Len(file))
  ELSE {}

HunkMismatch ==
  /\ PatchReturned
  /\ buildHunkNeedle(probe.body) # <<>>
  /\ ~MatchesAt(probe.file, buildHunkNeedle(probe.body), probe.oldStart - 1)

\* C30: when the original-side lines of a hunk (context and deletions) do
\* not all match the file at the declared oldStart, the hunk is applied at
\* the unique match of that needle when it has at least 2 lines and occurs
\* exactly once within 200 lines of the declared position (or, failing that,
\* exactly once in the whole file); in every other mismatch case the patch
\* fails.
C30_FuzzyAnchorUniqueOrFail ==
  HunkMismatch =>
    IF UniqueAnchor(probe.file, buildHunkNeedle(probe.body), probe.oldStart - 1) # {}
    THEN /\ probe.result.ok
         /\ probe.applied # <<>>
         /\ probe.applied[1] \in
              UniqueAnchor(probe.file, buildHunkNeedle(probe.body), probe.oldStart - 1)
    ELSE ~probe.result.ok

\* The fuzzy anchoring is as stated when the first original-side line of the
\* hunk differs from the line at the declared position.
FuzzyAnchorWhenFirstLineDiffers ==
  HunkMismatch /\ safeLine(probe.file, probe.oldStart - 1) # buildHunkNeedle(probe.body)[1] =>
    IF UniqueAnchor(probe.file, buildHunkNeedle(probe.body), probe.oldStart - 1) # {}
    THEN /\ probe.result.ok
         /\ probe.applied # <<>>
         /\ probe.applied[1] \in
              UniqueAnchor(probe.file, buildHunkNeedle(probe.body), probe.oldStart - 1)
    ELSE ~probe.result.ok

----------------------------------------------------------------------------
(* C31: a tool call that carries a field of another tool is never handed to *)
(* the runtime.                                                             *)

\* The block carries a field its tool must not carry.
CarriesForeignField(b) ==
  \/ b.tool = "terminal_run"
       /\ (hasOwnProperty(b.params, "path") \/ hasOwnProperty(b.params, "content"))
  \/ b.tool \in {"write_code", "write_file"} /\ hasOwnProperty(b.params, "command")

\* C31: a terminal_run call that carries <path> or <content>, and a
\* write_code or write_file call that carries <command>, yields no action of
\* its type and never reaches runtime.execute_action.
C31_ForeignFieldCallNeverDispatched ==
  pc \in {"exec", "reflect"} =>
    ~(/\ CarriesForeignField(hist.raw.blocks[idx])
      /\ actions[idx].type = hist.raw.blocks[idx].tool)

----------------------------------------------------------------------------
(* C32, C33, C34: the text and the chunks of one call of the LLM client.    *)

SSEStarted == probe # <<>> /\ probe.tool = "handleSSE"

SSEReturned == SSEStarted /\ probe.stage = "returned"

RECURSIVE Concat(_)
\* the chunks, joined in the order of their arrival
Concat(chunks) == IF chunks = <<>> THEN "" ELSE Head(chunks) \o Concat(Tail(chunks))

\* C32: once a [DONE] message has been consumed, the text of a later message
\* is neither appended to the text the call returns nor handed to
\* onTokenStream.
C32_NothingAfterDone ==
  SSEStarted /\ probe.atDone # <<>> =>
    /\ probe.fullContent = probe.atDone[1].fullContent
    /\ Len(probe.tokens) = probe.atDone[1].tokens

\* C33: a cancelled call resolves, and with the text accumulated so far: the
\* empty string when no delta was received.
C33_CancelResolvesWithAccumulated ==
  SSEReturned /\ probe.cancelled =>
    probe.outcome = "resolved" /\ probe.returned = probe.fullContent

\* C34: the text a call returns is the concatenation of the chunks handed to
\* onTokenStream during the call, in the order of their arrival.
C34_ReturnedIsConcatOfChunks ==
  SSEReturned /\ probe.outcome = "resolved" => probe.returned = Concat(probe.tokens)

\* On a response that streams, the returned text is the concatenation of the
\* chunks and a cancellation resolves with the accumulated text.
StreamedTextIsConcatOfChunks ==
  SSEReturned /\ probe.outcome = "resolved" /\ probe.events > 0 =>
    /\ probe.returned = Concat(probe.tokens)
    /\ probe.returned = probe.fullContent

----------------------------------------------------------------------------
(* C35: the recheck of a transient read error and the stored reflection     *)

\* The recheck at the head of the turn has read a path again with success.
RecheckedWithSuccess == pc = "think" /\ hist.recheck # <<>>

\* C35: when the path of a transient read_file failure was written with
\* success and the recheck reads it, context.reflection is cleared if the
\* stored reflection came from that read_file failure, and otherwise it is
\* left as it was.
C35_RecheckClearsOwnReflectionOnly ==
  RecheckedWithSuccess =>
    reflection = (IF \E p \in hist.recheck[1].ok :
                       hist.recheck[1].from = <<"read_file", p>>
                  THEN "" ELSE hist.recheck[1].before)

\* C36: the consecutive turns on which the LLM returns an empty output are
\* bounded by the retry cap: once more than MAX_RETRY_TIMES turns in a row
\* have returned an empty output, completeCodeAct has returned the
\* max-retries failure.
C36_EmptyTurnsEndTask ==
  hist.empties > MAX_RETRY_TIMES =>
    pc = "done" /\ result \in {MaxRetriesResult(TRUE), MaxRetriesResult(FALSE)}

\* Prose without a tool call is counted against the cap before each retry:
\* retryCount never passes MAX_RETRY_TIMES unless an empty output raised it.
ProseTurnsEndTask ==
  hist.empties = 0 /\ pc = "top" => retryCount <= MAX_RETRY_TIMES

\* The turn just handled held invalid tool calls only.
OnlyInvalidCalls ==
  /\ Len(hist.log) > 0
  /\ \A i \in 1..Len(hist.log) :
       hist.log[i].kind \in {"invalid_block", "invalid_args", "invalid_finish"}

\* C37: when every turn of the LLM yields invalid tool calls only, the turns
\* are bounded: once more than MAX_RETRY_TIMES such turns have been taken in
\* a row, completeCodeAct has returned a failure result.
C37_InvalidTurnsEndTask ==
  OnlyInvalidCalls /\ turns > MAX_RETRY_TIMES => pc = "done"

\* A turn of invalid tool calls counts no retry and returns nothing.
InvalidTurnsCountNothing ==
  retryCount = 0 /\ result = "" /\ pc # "done"

\* The action the for loop handled last in this turn is a patch_complete.
PatchCompleteHandled ==
  Len(hist.log) > 0 /\ hist.log[Len(hist.log)].kind = "patch_complete"

\* The steps that handle a patch_complete: the step of the for loop that
\* meets it, and the step after the loop that follows its break.
HandlesPatchComplete ==
  IF pc = "act" THEN ActionKind(actions[idx]) = "patch_complete"
  ELSE pc = "end" /\ PatchCompleteHandled

\* C39: handling a patch_complete leaves retryCount unchanged, in the for
\* loop and in the retry that follows its break: it is not counted as a
\* failed attempt.
C39_PatchCompleteKeepsRetryCount ==
  [][HandlesPatchComplete => retryCount' = retryCount]_vars

\* The step of the for loop that meets a patch_complete counts nothing.
PatchCompleteStepKeepsRetryCount ==
  [][pc = "act" => retryCount' = retryCount]_vars

\* The turn just handled ended on an action that failed, and the comments of
\* its reflection are the reflection on the context when the next prompt of
\* the task is built.
ActionFailureStored ==
  /\ pc = "think" /\ Len(hist.log) > 0
  /\ hist.log[Len(hist.log)].kind = "completed"
  /\ hist.log[Len(hist.log)].ctl = "break"
  /\ reflection # ""

\* C38: when an action fails during a task and its comments are stored in
\* context.reflection, the next prompt built in that task holds the Error
\* Feedback block with that reflection, whatever finish status an earlier
\* finish left on the context.
C38_FailureShownInNextPrompt ==
  ActionFailureStored =>
    \E i \in 1..(Len(ThinkingPrompt) - 1) :
      ThinkingPrompt[i] = ErrorFeedbackHeader /\ ThinkingPrompt[i + 1] = reflection

\* The same, for a context on which no finish has left the status SUCCESS.
FailureShownUnlessSuccess ==
  ActionFailureStored /\ toUpperCase(last_finish_status) # "SUCCESS" =>
    \E i \in 1..(Len(ThinkingPrompt) - 1) :
      ThinkingPrompt[i] = ErrorFeedbackHeader /\ ThinkingPrompt[i + 1] = reflection

\* The message at i is the tool call of an assistant and the message after
\* it is a user message with the same prune_hash.
CallWithResult(msgs, i) ==
  /\ i + 1 <= Len(msgs)
  /\ msgs[i].role = "assistant" /\ msgs[i].meta.prune_hash # NoHash
  /\ msgs[i + 1].role = "user"
  /\ msgs[i + 1].meta.prune_hash = msgs[i].meta.prune_hash

\* C40: after any addMessage, an assistant tool call and the user message
\* that directly follows it with the same prune_hash are both pruned or both
\* not pruned.
C40_CallAndResultPrunedTogether ==
  \A i \in 1..Len(messages) :
    CallWithResult(messages, i) =>
      (messages[i].meta.pruned <=> messages[i + 1].meta.pruned)

\* The same, for the results that were appended with a content: a user
\* message that is not pruned and has no content is left aside.
CallAndFilledResultPrunedTogether ==
  \A i \in 1..Len(messages) :
    CallWithResult(messages, i) =>
      \/ messages[i].meta.pruned <=> messages[i + 1].meta.pruned
      \/ ~messages[i + 1].meta.pruned /\ messages[i + 1].content.len = 0

\* A call and its result have been pruned together.
PairPrunedTogether ==
  \E i \in 1..Len(messages) :
    CallWithResult(messages, i) /\ messages[i].meta.pruned /\ messages[i + 1].meta.pruned

====
